---------------------------- MODULE Spec2Model ----------------------------
(***************************************************************************)
(* Model of the nutrition / exercise engine: the nutrition gap analyzer    *)
(* (nutrition_analyzer.py), the activity gap analyzer                      *)
(* (activity_tracker.py), the progress projector (progress_predictor.py),  *)
(* the recommendation engine (recommendation_engine.py) and the users      *)
(* table of the database (database_manager.py).                            *)
(*                                                                         *)
(* Numbers.  Averages, MET calories and deficits are exact rationals       *)
(* <<n, d>> in lowest terms (d > 0); a missing value (pandas NaN) is the   *)
(* pair <<0, 0>>.  Weights, BMI and energy of the projector are integers   *)
(* in hundredths (70.2 kg is 7020), so that round(x, 1) is a real          *)
(* operation on them.                                                      *)
(***************************************************************************)
EXTENDS Integers, Sequences, FiniteSets, TLC

VARIABLES
    foodLog,          \* the caller's food-log DataFrame (rows in order)
    nutritionResult,  \* value returned by the last analyze_food_logs call
    exerciseLog,      \* the caller's exercise-log DataFrame (rows in order)
    exHasColumn,      \* whether that DataFrame has a calories_burned column
    user_weight,      \* user_weight argument of the last analyze_activity_logs call
    activityResult,   \* value returned by the last analyze_activity_logs call
    is_trained,       \* ProgressPredictor.is_trained
    trainCall,        \* the last train_models call: the rows it was given,
                      \* whether a fit raised, and is_trained before it
    user_data,        \* argument of the running predict_progress call
    weeks_ahead,      \* argument of the running predict_progress call
    week,             \* loop variable of predict_progress
    current_weight,   \* local of predict_progress
    current_energy,   \* local of predict_progress
    predictions,      \* local of predict_progress: Week_1 .. Week_k, in order
    stepLog,          \* per completed week, in order: the current_weight and
                      \* current_energy its feature vector was built from,
                      \* whether the step succeeded, and the models' answer
    pc,               \* "idle" | "loop" | "returned" | "raised"
    user_goals,       \* argument of the last analyze_goal_achievement call
    goalAnalysis,     \* value returned by the last analyze_goal_achievement call
    engineArgs,       \* arguments of the last call of a method that keeps
                      \* no state (RecommendationEngine, plan estimates)
    engineResult,     \* value returned by that call
    users,            \* rows of the users table, in rowid order
    sqlite_sequence,  \* largest id the users table has handed out
    dbLog             \* the create_user and get_user calls made on the
                      \* database so far, each with what it returned

nutritionVars == <<foodLog, nutritionResult>>
activityVars  == <<exerciseLog, exHasColumn, user_weight, activityResult>>
goalVars      == <<user_goals, goalAnalysis>>
predictVars   == <<is_trained, trainCall, user_data, weeks_ahead, week, current_weight,
                   current_energy, predictions, stepLog, pc, goalVars>>
engineVars    == <<engineArgs, engineResult>>
dbVars        == <<users, sqlite_sequence, dbLog>>
vars == <<foodLog, nutritionResult, exerciseLog, exHasColumn, user_weight,
          activityResult,
          is_trained, trainCall, user_data, weeks_ahead, week, current_weight,
          current_energy, predictions, stepLog, pc, user_goals, goalAnalysis,
          engineArgs, engineResult, users, sqlite_sequence, dbLog>>

----------------------------------------------------------------------------
(* Bounds of the model *)

MaxFoodLog == 4
MaxExLog == 4
MaxWeeks == 3
MaxPlanDays == 3
MaxDbCalls == 3

----------------------------------------------------------------------------
(* Exact rational arithmetic *)

Abs(x) == IF x < 0 THEN -x ELSE x

RECURSIVE GCD(_, _)
GCD(a, b) == IF b = 0 THEN a ELSE GCD(b, a % b)

Rat(n, d) ==
    LET g == GCD(Abs(n), Abs(d))
        s == IF d < 0 THEN -1 ELSE 1
    IN  <<(s * n) \div g, (s * d) \div g>>

R(n) == <<n, 1>>
NaN == <<0, 0>>
IsNaN(x) == x[2] = 0

RatAdd(a, b) == Rat(a[1] * b[2] + b[1] * a[2], a[2] * b[2])
RatSub(a, b) == Rat(a[1] * b[2] - b[1] * a[2], a[2] * b[2])
RatMul(a, b) == Rat(a[1] * b[1], a[2] * b[2])
RatDivInt(a, k) == Rat(a[1], a[2] * k)
RatLt(a, b) == a[1] * b[2] < b[1] * a[2]
RatLe(a, b) == a[1] * b[2] <= b[1] * a[2]

(* pandas sum / count / mean of a column: NaN cells are skipped; the sum of *)
(* no cell is 0 and the mean of no cell is NaN.                            *)
RECURSIVE SumSkipNa(_)
SumSkipNa(s) ==
    IF s = <<>> THEN R(0)
    ELSE IF IsNaN(Head(s)) THEN SumSkipNa(Tail(s))
    ELSE RatAdd(Head(s), SumSkipNa(Tail(s)))

RECURSIVE CountNotNa(_)
CountNotNa(s) ==
    IF s = <<>> THEN 0
    ELSE (IF IsNaN(Head(s)) THEN 0 ELSE 1) + CountNotNa(Tail(s))

MeanSkipNa(s) ==
    IF CountNotNa(s) = 0 THEN NaN ELSE RatDivInt(SumSkipNa(s), CountNotNa(s))

Column(df, col) == [i \in 1..Len(df) |-> df[i][col]]


(* n / d rounded to the nearest integer, ties to even (d > 0): what        *)
(* round(x, 1) and the format {:.1f} do, on a value counted in tenths.     *)
RoundDiv(n, d) ==
    LET q == n \div d
        r == n % d
    IN  IF 2 * r < d THEN q
        ELSE IF 2 * r > d THEN q + 1
        ELSE IF q % 2 = 0 THEN q ELSE q + 1

----------------------------------------------------------------------------
(* NutritionAnalyzer *)

NutrientSeq == <<"calories", "protein", "carbs", "fat", "fiber">>
Nutrients == {NutrientSeq[i] : i \in 1..Len(NutrientSeq)}

recommended_values ==
    [calories |-> 2000, protein |-> 50, carbs |-> 225, fat |-> 65, fiber |-> 25]

(* The rows a caller can log: one food item with its macros, some missing. *)
FoodChoices ==
    { [food_item |-> "Rice", calories |-> R(600), protein |-> R(20),
       carbs |-> R(90), fat |-> R(26), fiber |-> R(5)],
      [food_item |-> "Rice", calories |-> R(600), protein |-> NaN,
       carbs |-> R(90), fat |-> R(26), fiber |-> R(5)],
      [food_item |-> "Eggs", calories |-> R(1000), protein |-> R(30),
       carbs |-> R(135), fat |-> R(39), fiber |-> R(15)],
      [food_item |-> "Oats", calories |-> R(400), protein |-> NaN,
       carbs |-> R(50), fat |-> R(10), fiber |-> NaN] }

(* The days a row can be logged on; nothing is logged on day 2. *)
FoodDates == {1, 3}

FoodRow(c, d) ==
    [date |-> d, food_item |-> c.food_item, calories |-> c.calories,
     protein |-> c.protein, carbs |-> c.carbs, fat |-> c.fat, fiber |-> c.fiber]

(* df[col].fillna(df.groupby('food_item')[col].transform('mean')) *)
FillByItem(df, col) ==
    [i \in 1..Len(df) |->
        IF IsNaN(df[i][col])
        THEN MeanSkipNa(Column(
                 SelectSeq(df, LAMBDA r : r.food_item = df[i].food_item), col))
        ELSE df[i][col]]

(* Mutant: what is still missing counts as nothing eaten *)
FillByColumnZero(cells) ==
    [i \in 1..Len(cells) |-> IF IsNaN(cells[i]) THEN R(0) ELSE cells[i]]

(* df[col].fillna(df[col].mean()) *)
FillByColumn(cells) ==
    [i \in 1..Len(cells) |->
        IF IsNaN(cells[i]) THEN MeanSkipNa(cells) ELSE cells[i]]

HandleMissingValues(df) ==
    LET filled == [f \in Nutrients |-> FillByColumn(FillByItem(df, f))]
    IN  [i \in 1..Len(df) |->
            [f \in DOMAIN df[i] |->
                IF f \in Nutrients THEN filled[f][i] ELSE df[i][f]]]

(* Mutant: every calendar day from the first to the last logged day *)
LogDatesPadded(df) ==
    UNION {df[i].date .. df[j].date : i, j \in 1..Len(df)}

(* the groups of groupby('date'): the dates that have a row *)
LogDates(df) == {df[i].date : i \in 1..Len(df)}

(* groupby('date').agg(sum): the sum of one column over the rows of a date *)
DailySum(df, d, col) ==
    SumSkipNa(Column(SelectSeq(df, LAMBDA r : r.date = d), col))

RECURSIVE SumDailySums(_, _, _)
SumDailySums(df, col, D) ==
    IF D = {} THEN R(0)
    ELSE LET d == CHOOSE x \in D : TRUE
         IN  RatAdd(DailySum(df, d, col), SumDailySums(df, col, D \ {d}))

(* Mutant: the mean is taken over the rows, not over the dates *)
IntakeDivisorRows(df) == Len(df)

(* the divisor of the mean over the per-date sums *)
IntakeDivisor(df) == Cardinality(LogDates(df))

CalculateDailyIntake(df) ==
    [n \in Nutrients |->
        RatDivInt(SumDailySums(df, n, LogDates(df)), IntakeDivisor(df))]

(* Mutant: the comparison is not strict *)
BelowThresholdOrEqual(current, recommended) ==
    RatLe(current, Rat(recommended * 8, 10))

(* current_intake < recommended * 0.8 *)
BelowThreshold(current, recommended) ==
    RatLt(current, Rat(recommended * 8, 10))

IdentifyNutritionalGaps(daily_intake) ==
    [n \in {m \in DOMAIN daily_intake :
               BelowThreshold(daily_intake[m], recommended_values[m])} |->
        [current |-> daily_intake[n],
         recommended |-> recommended_values[n],
         deficit |-> RatSub(R(recommended_values[n]), daily_intake[n])]]

AnalyzeEatingPatterns(df) ==
    [avg_meals_per_day |-> Rat(Len(df), Cardinality(LogDates(df))),
     common_foods |-> {df[i].food_item : i \in 1..Len(df)}]

(* the deficit as the format {:.1f} prints it, in tenths *)
Fmt1(x) == RoundDiv(x[1] * 10, x[2])

(* Mutant: the deficit is compared with 200 the other way round *)
GapRecommendationSwapped(n, gap) ==
    IF n = "protein"
    THEN <<[text |-> "Increase protein intake", amount |-> Fmt1(gap.deficit)]>>
    ELSE IF n = "fiber"
    THEN <<[text |-> "Add more fiber", amount |-> Fmt1(gap.deficit)]>>
    ELSE IF n = "calories"
    THEN IF RatLt(gap.deficit, R(200))
         THEN <<[text |-> "Consider increasing caloric intake with nutrient-dense foods.",
                 amount |-> 0]>>
         ELSE <<[text |-> "Maintain current caloric intake but focus on nutrient quality.",
                 amount |-> 0]>>
    ELSE <<>>

GapRecommendation(n, gap) ==
    IF n = "protein"
    THEN <<[text |-> "Increase protein intake", amount |-> Fmt1(gap.deficit)]>>
    ELSE IF n = "fiber"
    THEN <<[text |-> "Add more fiber", amount |-> Fmt1(gap.deficit)]>>
    ELSE IF n = "calories"
    THEN IF RatLt(R(200), gap.deficit)
         THEN <<[text |-> "Consider increasing caloric intake with nutrient-dense foods.",
                 amount |-> 0]>>
         ELSE <<[text |-> "Maintain current caloric intake but focus on nutrient quality.",
                 amount |-> 0]>>
    ELSE <<>>

RECURSIVE GapRecommendations(_, _)
GapRecommendations(gaps, i) ==
    IF i > Len(NutrientSeq) THEN <<>>
    ELSE (IF NutrientSeq[i] \in DOMAIN gaps
          THEN GapRecommendation(NutrientSeq[i], gaps[NutrientSeq[i]])
          ELSE <<>>) \o GapRecommendations(gaps, i + 1)

GenerateNutritionRecommendations(gaps, patterns) ==
    GapRecommendations(gaps, 1)
    \o (IF RatLt(patterns.avg_meals_per_day, R(3))
        THEN <<[text |-> "Aim for at least 3 balanced meals per day for better nutrient distribution.",
                amount |-> 0]>>
        ELSE <<>>)
    \o (IF Cardinality(patterns.common_foods) < 5
        THEN <<[text |-> "Increase food variety to ensure diverse nutrient intake.",
                amount |-> 0]>>
        ELSE <<>>)

(* Mutant: the default reports a full deficit for each of the five nutrients *)
NutritionDefaultAnalysisAllGaps ==
    [kind |-> "default",
     daily_intake |-> [n \in Nutrients |-> R(0)],
     nutritional_gaps |->
        [n \in Nutrients |->
            [current |-> R(0), recommended |-> recommended_values[n],
             deficit |-> R(recommended_values[n])]],
     eating_patterns |-> [avg_meals_per_day |-> R(0), common_foods |-> {}],
     recommendations |->
        <<[text |-> "Start logging your food intake to get personalized recommendations",
           amount |-> 0],
          [text |-> "Aim for balanced meals with protein, carbs, and healthy fats",
           amount |-> 0],
          [text |-> "Include plenty of fruits and vegetables for fiber and micronutrients",
           amount |-> 0]>>]

NutritionDefaultAnalysis ==
    [kind |-> "default",
     daily_intake |-> [n \in Nutrients |-> R(0)],
     nutritional_gaps |->
        [n \in {"calories", "protein", "fiber"} |->
            [current |-> R(0), recommended |-> recommended_values[n],
             deficit |-> R(recommended_values[n])]],
     eating_patterns |-> [avg_meals_per_day |-> R(0), common_foods |-> {}],
     recommendations |->
        <<[text |-> "Start logging your food intake to get personalized recommendations",
           amount |-> 0],
          [text |-> "Aim for balanced meals with protein, carbs, and healthy fats",
           amount |-> 0],
          [text |-> "Include plenty of fruits and vegetables for fiber and micronutrients",
           amount |-> 0]>>]

NoResult == [kind |-> "none"]

(* Mutant: one default dict is built once and handed out again *)
NutritionGetDefaultAnalysisShared(held) ==
    IF held.kind \in {"default", "default, modified"}
    THEN [held EXCEPT !.kind = "default"]
    ELSE NutritionDefaultAnalysis

(* get_default_analysis(): a dict built anew on every call, whatever became *)
(* of the one an earlier call returned (held)                              *)
NutritionGetDefaultAnalysis(held) == NutritionDefaultAnalysis

(* The caller logs one more row; an analysis of the shorter log is stale. *)
AddFoodEntry ==
    /\ Len(foodLog) < MaxFoodLog
    /\ \E c \in FoodChoices, d \in FoodDates :
          foodLog' = Append(foodLog, FoodRow(c, d))
    /\ nutritionResult' = NoResult
    /\ UNCHANGED <<activityVars, predictVars, engineVars, dbVars>>

(* analyze_food_logs(foodLog): the canned default for the empty frame;    *)
(* otherwise handle_missing_values assigns the filled columns into the     *)
(* DataFrame it was given, and the analysis is computed from that frame.   *)
AnalyzeFoodLogs ==
    /\ IF foodLog = <<>>
       THEN /\ nutritionResult' = NutritionGetDefaultAnalysis(nutritionResult)
            /\ foodLog' = foodLog
       ELSE \E filled \in {HandleMissingValues(foodLog)} :
            \E intake \in {CalculateDailyIntake(filled)} :
            \E gaps \in {IdentifyNutritionalGaps(intake)} :
            \E patterns \in {AnalyzeEatingPatterns(filled)} :
               /\ nutritionResult' =
                     [kind |-> "analysis",
                      daily_intake |-> intake,
                      nutritional_gaps |-> gaps,
                      eating_patterns |-> patterns,
                      recommendations |->
                          GenerateNutritionRecommendations(gaps, patterns)]
               /\ foodLog' = filled
    /\ UNCHANGED <<activityVars, predictVars, engineVars, dbVars>>

(* What a caller can do to a dict it was returned *)
ResultEdits == {"clear recommendations", "clear gaps"}

EditedKind(result) ==
    IF result.kind = "default" THEN "default, modified" ELSE "analysis, modified"

(* The caller changes the dict analyze_food_logs returned to it *)
ModifyNutritionResult ==
    /\ nutritionResult.kind \in {"default", "analysis"}
    /\ \E e \in ResultEdits :
          nutritionResult' =
              IF e = "clear recommendations"
              THEN [nutritionResult EXCEPT !.kind = EditedKind(nutritionResult),
                                           !.recommendations = <<>>]
              ELSE [nutritionResult EXCEPT !.kind = EditedKind(nutritionResult),
                                           !.nutritional_gaps = <<>>]
    /\ UNCHANGED <<foodLog, activityVars, predictVars, engineVars, dbVars>>

(* The caller turns to another frame, one without rows *)
DiscardFoodLog ==
    /\ foodLog # <<>>
    /\ foodLog' = <<>>
    /\ nutritionResult' = NoResult
    /\ UNCHANGED <<activityVars, predictVars, engineVars, dbVars>>

----------------------------------------------------------------------------
(* ActivityTracker *)

(* Rows of the reference table create_sample_exercise_data writes; the MET *)
(* value is in tenths.                                                     *)
exercise_data ==
    { [exercise_type |-> "Walking", met10 |-> 35, category |-> "Cardio"],
      [exercise_type |-> "Running", met10 |-> 80, category |-> "Cardio"],
      [exercise_type |-> "Weight Training", met10 |-> 60, category |-> "Strength"],
      [exercise_type |-> "Yoga", met10 |-> 25, category |-> "Flexibility"] }

KnownTypes == {r.exercise_type : r \in exercise_data}
RefRow(t) == CHOOSE r \in exercise_data : r.exercise_type = t

(* self.met_values.get(row['exercise_type'], 5.0) *)
MetValue(t) == IF t \in KnownTypes THEN Rat(RefRow(t).met10, 10) ELSE Rat(50, 10)

(* the category column after the left merge with the reference table *)
CategoryOf(t) == IF t \in KnownTypes THEN RefRow(t).category ELSE "NaN"

(* The rows a caller can log, with the day of each; "Zumba" is not in the  *)
(* reference table.                                                        *)
ExerciseChoices ==
    { [date |-> 1, exercise_type |-> "Running", duration |-> 75,
       calories_burned |-> NaN],
      [date |-> 1, exercise_type |-> "Walking", duration |-> 75,
       calories_burned |-> NaN],
      [date |-> 2, exercise_type |-> "Yoga", duration |-> 75,
       calories_burned |-> NaN],
      [date |-> 45, exercise_type |-> "Zumba", duration |-> 75,
       calories_burned |-> NaN],
      [date |-> 20, exercise_type |-> "Weight Training", duration |-> 30,
       calories_burned |-> NaN],
      [date |-> 1, exercise_type |-> "Running", duration |-> 30,
       calories_burned |-> R(250)] }

UserWeightsKg == {60, 70}

(* calc_calories(row) *)
CalcCalories(row, w) ==
    RatMul(RatMul(MetValue(row.exercise_type), R(w)), Rat(row.duration, 60))

(* 'calories_burned' not in columns or the column is all NaN *)
NeedsCalories(df, hasColumn) ==
    \/ ~hasColumn
    \/ \A i \in 1..Len(df) : IsNaN(df[i].calories_burned)

CalculateCaloriesBurned(df, hasColumn, w) ==
    IF NeedsCalories(df, hasColumn)
    THEN [i \in 1..Len(df) |->
             [df[i] EXCEPT !.calories_burned = CalcCalories(df[i], w)]]
    ELSE df

RECURSIVE SumDuration(_)
SumDuration(df) ==
    IF df = <<>> THEN 0 ELSE Head(df).duration + SumDuration(Tail(df))

UniqueExercises(df) == Cardinality({df[i].exercise_type : i \in 1..Len(df)})

(* Mutant: the rate is taken over the days the log spans *)
ExerciseFrequencySpanned(df) ==
    LET days == {df[i].date : i \in 1..Len(df)}
        first == CHOOSE d \in days : \A e \in days : d <= e
        last == CHOOSE d \in days : \A e \in days : d >= e
    IN  IF Len(df) > 0 THEN Rat(Len(df), last - first + 1) ELSE R(0)

(* len(df) / 30 if len(df) > 0 else 0 *)
ExerciseFrequency(df) == IF Len(df) > 0 THEN Rat(Len(df), 30) ELSE R(0)

AnalyzeActivityPatterns(df) ==
    [exercises_per_week |-> RatMul(ExerciseFrequency(df), R(7)),
     avg_duration_minutes |-> Rat(SumDuration(df), Len(df)),
     total_weekly_duration |-> SumDuration(df)]

(* Mutant: the deficit is taken the other way round *)
GapFromCurrent(current, recommended) ==
    [current |-> current, recommended |-> recommended,
     deficit |-> current - recommended]

Gap(current, recommended) ==
    [current |-> current, recommended |-> recommended,
     deficit |-> recommended - current]

CardioGap(df) ==
    IF SumDuration(df) < 150
    THEN [g \in {"cardio_duration"} |-> Gap(SumDuration(df), 150)]
    ELSE <<>>

VarietyGap(df) ==
    IF UniqueExercises(df) < 3
    THEN [g \in {"exercise_variety"} |-> Gap(UniqueExercises(df), 3)]
    ELSE <<>>

(* len(merged[merged['category'] == c]) *)
SessionsOfCategory(df, c) ==
    Len(SelectSeq(df, LAMBDA r : CategoryOf(r.exercise_type) = c))

(* Mutant: the strength check is an elif of the variety check *)
StrengthGapUnlessVariety(df) ==
    IF UniqueExercises(df) >= 3 /\ SessionsOfCategory(df, "Strength") < 2
    THEN [g \in {"strength_training"} |-> Gap(SessionsOfCategory(df, "Strength"), 2)]
    ELSE <<>>

StrengthGap(df) ==
    IF SessionsOfCategory(df, "Strength") < 2
    THEN [g \in {"strength_training"} |-> Gap(SessionsOfCategory(df, "Strength"), 2)]
    ELSE <<>>

(* Mutant: the trigger is the recommended value *)
FlexibilityGapBelowTarget(df) ==
    IF SessionsOfCategory(df, "Flexibility") < 2
    THEN [g \in {"flexibility"} |-> Gap(SessionsOfCategory(df, "Flexibility"), 2)]
    ELSE <<>>

FlexibilityGap(df) ==
    IF SessionsOfCategory(df, "Flexibility") < 1
    THEN [g \in {"flexibility"} |-> Gap(SessionsOfCategory(df, "Flexibility"), 2)]
    ELSE <<>>

IdentifyFitnessGaps(df) ==
    CardioGap(df) @@ VarietyGap(df) @@ StrengthGap(df) @@ FlexibilityGap(df)

FitnessGapSeq ==
    <<"cardio_duration", "exercise_variety", "strength_training", "flexibility">>

FitnessGapRecommendation(g, gap) ==
    IF g = "cardio_duration"
    THEN [text |-> "Increase cardio", amount |-> gap.deficit]
    ELSE IF g = "strength_training"
    THEN [text |-> "Add strength training sessions", amount |-> gap.deficit]
    ELSE IF g = "exercise_variety"
    THEN [text |-> "Try new activities to increase exercise variety and prevent boredom.",
          amount |-> 0]
    ELSE [text |-> "Include yoga or stretching sessions for flexibility and recovery.",
          amount |-> 0]

RECURSIVE FitnessGapRecommendations(_, _)
FitnessGapRecommendations(gaps, i) ==
    IF i > Len(FitnessGapSeq) THEN <<>>
    ELSE (IF FitnessGapSeq[i] \in DOMAIN gaps
          THEN <<FitnessGapRecommendation(FitnessGapSeq[i], gaps[FitnessGapSeq[i]])>>
          ELSE <<>>) \o FitnessGapRecommendations(gaps, i + 1)

GenerateExerciseRecommendations(patterns, gaps) ==
    FitnessGapRecommendations(gaps, 1)
    \o (IF RatLt(patterns.exercises_per_week, R(3))
        THEN <<[text |-> "Aim for at least 3-4 exercise sessions per week for optimal health benefits.",
                amount |-> 0]>>
        ELSE <<>>)
    \o (IF RatLt(patterns.avg_duration_minutes, R(30))
        THEN <<[text |-> "Try to exercise for at least 30 minutes per session for better results.",
                amount |-> 0]>>
        ELSE <<>>)

(* Mutant: the default's gaps are computed by the rules from an empty log *)
ActivityDefaultAnalysisByRules ==
    [kind |-> "default",
     activity_patterns |->
        [exercises_per_week |-> R(0), avg_duration_minutes |-> R(0),
         total_weekly_duration |-> 0],
     fitness_gaps |-> IdentifyFitnessGaps(<<>>),
     recommendations |->
        <<[text |-> "Start with 150 minutes of moderate cardio per week", amount |-> 0],
          [text |-> "Include 2 strength training sessions weekly", amount |-> 0],
          [text |-> "Add flexibility exercises like yoga or stretching", amount |-> 0],
          [text |-> "Begin with activities you enjoy to build consistency", amount |-> 0]>>,
     total_calories_burned |-> R(0)]

ActivityDefaultAnalysis ==
    [kind |-> "default",
     activity_patterns |->
        [exercises_per_week |-> R(0), avg_duration_minutes |-> R(0),
         total_weekly_duration |-> 0],
     fitness_gaps |->
        [g \in {"cardio_duration", "strength_training", "flexibility"} |->
            IF g = "cardio_duration" THEN Gap(0, 150) ELSE Gap(0, 2)],
     recommendations |->
        <<[text |-> "Start with 150 minutes of moderate cardio per week", amount |-> 0],
          [text |-> "Include 2 strength training sessions weekly", amount |-> 0],
          [text |-> "Add flexibility exercises like yoga or stretching", amount |-> 0],
          [text |-> "Begin with activities you enjoy to build consistency", amount |-> 0]>>,
     total_calories_burned |-> R(0)]

(* get_default_analysis(): a dict built anew on every call, whatever became *)
(* of the one an earlier call returned (held)                              *)
ActivityGetDefaultAnalysis(held) == ActivityDefaultAnalysis

(* The caller logs one more row; the first row decides whether the frame   *)
(* has a calories_burned column, which a row with a value needs.  An       *)
(* analysis of the shorter log is stale.                                   *)
AddExerciseEntry ==
    /\ Len(exerciseLog) < MaxExLog
    /\ exHasColumn' \in IF exerciseLog = <<>> THEN BOOLEAN ELSE {exHasColumn}
    /\ \E c \in ExerciseChoices :
          /\ exHasColumn' \/ IsNaN(c.calories_burned)
          /\ exerciseLog' = Append(exerciseLog, c)
    /\ activityResult' = NoResult
    /\ UNCHANGED <<user_weight, nutritionVars, predictVars, engineVars, dbVars>>

(* analyze_activity_logs(exerciseLog, w): the canned default for the empty *)
(* frame; otherwise calculate_calories_burned assigns the column into the  *)
(* DataFrame it was given, and the analysis is computed from that frame.   *)
AnalyzeActivityLogs ==
    /\ \E w \in UserWeightsKg :
          /\ user_weight' = w
          /\ IF exerciseLog = <<>>
             THEN /\ activityResult' = ActivityGetDefaultAnalysis(activityResult)
                  /\ UNCHANGED <<exerciseLog, exHasColumn>>
             ELSE \E filled \in {CalculateCaloriesBurned(exerciseLog, exHasColumn, w)} :
                  \E patterns \in {AnalyzeActivityPatterns(filled)} :
                  \E gaps \in {IdentifyFitnessGaps(filled)} :
                     /\ activityResult' =
                           [kind |-> "analysis",
                            activity_patterns |-> patterns,
                            fitness_gaps |-> gaps,
                            recommendations |->
                                GenerateExerciseRecommendations(patterns, gaps),
                            total_calories_burned |->
                                SumSkipNa(Column(filled, "calories_burned"))]
                     /\ exerciseLog' = filled
                     /\ exHasColumn' = TRUE
    /\ UNCHANGED <<nutritionVars, predictVars, engineVars, dbVars>>

(* The caller changes the dict analyze_activity_logs returned to it *)
ModifyActivityResult ==
    /\ activityResult.kind \in {"default", "analysis"}
    /\ \E e \in ResultEdits :
          activityResult' =
              IF e = "clear recommendations"
              THEN [activityResult EXCEPT !.kind = EditedKind(activityResult),
                                          !.recommendations = <<>>]
              ELSE [activityResult EXCEPT !.kind = EditedKind(activityResult),
                                          !.fitness_gaps = <<>>]
    /\ UNCHANGED <<exerciseLog, exHasColumn, user_weight,
                   nutritionVars, predictVars, engineVars, dbVars>>

(* The caller turns to another frame, one without rows *)
DiscardExerciseLog ==
    /\ exerciseLog # <<>>
    /\ exerciseLog' = <<>>
    /\ exHasColumn' = TRUE
    /\ activityResult' = NoResult
    /\ UNCHANGED <<user_weight, nutritionVars, predictVars, engineVars, dbVars>>

----------------------------------------------------------------------------
(* ProgressPredictor.  Weights, BMI and energy are in hundredths.          *)

(* round(x, 1) of a value in hundredths *)
Round1(x) == 10 * RoundDiv(x, 10)

Max(a, b) == IF a >= b THEN a ELSE b
Min(a, b) == IF a <= b THEN a ELSE b

(* max(lo, min(hi, x)) *)
Clamp(lo, hi, x) == Max(lo, Min(hi, x))

(* The profiles a caller can pass: weight in hundredths of a kg, height in *)
(* cm; gender "None" is a profile whose gender column is NULL.             *)
UserWeights == {4000, 7000, 7016, 20000}
UserHeights == {150, 170}
Genders == {"Male", "Female", "None"}
Users == [weight : UserWeights, height : UserHeights, gender : Genders]

(* What the fitted models can answer for one week (weight, bmi, energy):   *)
(* the models are opaque, their outputs are not bounded by the code.       *)
RawPredictions ==
    { [weight |-> 2500, bmi |-> 1000, energy |-> 50],
      [weight |-> 6900, bmi |-> 2388, energy |-> 700],
      [weight |-> 7000, bmi |-> 2422, energy |-> 500],
      [weight |-> 7023, bmi |-> 2431, energy |-> 647],
      [weight |-> 20500, bmi |-> 6000, energy |-> 1200] }

NoAnswer == [weight |-> 0, bmi |-> 0, energy |-> 0]

(* Sizes of the training frame a caller can pass to train_models *)
TrainingRows == {9, 10}

(* Mutant: too few rows leave the flag as it was *)
TrainedAfterUnlessFewRows(rows, fitOk) == IF rows < 10 THEN is_trained ELSE fitOk

(* train_models: is_trained after the call *)
TrainedAfter(rows, fitOk) == IF rows < 10 THEN FALSE ELSE fitOk

TrainModels ==
    /\ pc # "loop"
    /\ \E rows \in TrainingRows, fitOk \in BOOLEAN :
          /\ is_trained' = TrainedAfter(rows, fitOk)
          /\ trainCall' = [kind |-> "call", rows |-> rows,
                           fit_raised |-> (rows >= 10 /\ ~fitOk),
                           was_trained |-> is_trained]
    /\ UNCHANGED <<user_data, weeks_ahead, week, current_weight, current_energy,
                   predictions, stepLog, pc, goalVars,
                   nutritionVars, activityVars, engineVars, dbVars>>

(* calculate_bmr raises on gender.lower() when gender is None; every other *)
(* step of prepare_prediction_features is arithmetic on numbers.           *)
FeaturesRaise(u) == u.gender = "None"

(* Mutant: the bmi is computed with the assumed height of 1.70 m *)
DefaultPredictionFixedHeight(u, k) ==
    [week |-> k,
     weight |-> Round1(u.weight + 20 * k),
     bmi |-> 10 * RoundDiv((u.weight + 20 * k) * 10, 289),
     energy_level |-> 600,
     weight_change |-> Round1(20 * k)]

(* the entry of one week of the linear fallback *)
DefaultPrediction(u, k) ==
    [week |-> k,
     weight |-> Round1(u.weight + 20 * k),
     bmi |-> 10 * RoundDiv((u.weight + 20 * k) * 1000, u.height * u.height),
     energy_level |-> 600,
     weight_change |-> Round1(20 * k)]

(* Mutant: the fallback projects a loss of 0.2 kg a week *)
GetDefaultPredictionsLosing(u, n) ==
    [k \in 1..n |->
        [DefaultPrediction(u, k) EXCEPT !.weight = Round1(u.weight - 20 * k),
                                        !.weight_change = Round1(0 - 20 * k)]]

GetDefaultPredictions(u, n) == [k \in 1..n |-> DefaultPrediction(u, k)]

GetDefaultWeekPrediction(cw, k) ==
    [week |-> k,
     weight |-> Round1(cw + 10),
     bmi |-> 10 * RoundDiv(cw * 10, 289),
     energy_level |-> 600,
     weight_change |-> 10]

ClampWeight(x) == Clamp(3000, 20000, x)
ClampBmi(x) == Clamp(1500, 5000, x)
ClampEnergy(x) == Clamp(100, 1000, x)

(* the entry of one successful week of the trained path *)
TrainedPrediction(raw, cw, k) ==
    [week |-> k,
     weight |-> Round1(ClampWeight(raw.weight)),
     bmi |-> Round1(ClampBmi(raw.bmi)),
     energy_level |-> Round1(ClampEnergy(raw.energy)),
     weight_change |-> Round1(ClampWeight(raw.weight) - cw)]

(* Mutant: the recorded, rounded weight is carried into the next week *)
NextWeightRounded(raw) == Round1(ClampWeight(raw.weight))

(* the values carried into the next week after a successful week *)
NextWeight(raw) == ClampWeight(raw.weight)
NextEnergy(raw) == ClampEnergy(raw.energy)

(* predict_progress, untrained: the whole call *)
PredictUntrained ==
    /\ pc # "loop"
    /\ ~is_trained
    /\ \E u \in Users, n \in 1..MaxWeeks :
          /\ user_data' = u
          /\ weeks_ahead' = n
          /\ week' = n
          /\ predictions' = GetDefaultPredictions(u, n)
          /\ current_weight' = u.weight
    /\ current_energy' = 500
    /\ stepLog' = <<>>
    /\ pc' = "returned"
    /\ user_goals' = <<>>
    /\ goalAnalysis' = NoResult
    /\ UNCHANGED <<is_trained, trainCall, nutritionVars, activityVars, engineVars, dbVars>>

(* predict_progress, trained: up to the head of the loop *)
PredictTrained ==
    /\ pc # "loop"
    /\ is_trained
    /\ \E u \in Users, n \in 1..MaxWeeks :
          /\ user_data' = u
          /\ weeks_ahead' = n
          /\ current_weight' = u.weight
    /\ current_energy' = 500
    /\ week' = 1
    /\ predictions' = <<>>
    /\ stepLog' = <<>>
    /\ pc' = "loop"
    /\ user_goals' = <<>>
    /\ goalAnalysis' = NoResult
    /\ UNCHANGED <<is_trained, trainCall, nutritionVars, activityVars, engineVars, dbVars>>

AfterWeek == IF week = weeks_ahead THEN "returned" ELSE "loop"

(* One iteration in which prepare_prediction_features raises: it is called *)
(* before the try block, so the exception leaves predict_progress.         *)
WeekFeaturesRaise ==
    /\ pc = "loop"
    /\ FeaturesRaise(user_data)
    /\ pc' = "raised"
    /\ UNCHANGED <<is_trained, trainCall, user_data, weeks_ahead, week, current_weight,
                   current_energy, predictions, stepLog, goalVars,
                   nutritionVars, activityVars, engineVars, dbVars>>

(* One iteration in which scaling and the three predictions succeed *)
WeekPredicted ==
    /\ pc = "loop"
    /\ ~FeaturesRaise(user_data)
    /\ \E raw \in RawPredictions :
          /\ predictions' = Append(predictions,
                                   TrainedPrediction(raw, current_weight, week))
          /\ current_weight' = NextWeight(raw)
          /\ current_energy' = NextEnergy(raw)
          /\ stepLog' = Append(stepLog,
                               [weight |-> current_weight, energy |-> current_energy,
                                ok |-> TRUE, raw |-> raw])
    /\ pc' = AfterWeek
    /\ week' = IF week = weeks_ahead THEN week ELSE week + 1
    /\ UNCHANGED <<is_trained, trainCall, user_data, weeks_ahead, goalVars,
                   nutritionVars, activityVars, engineVars, dbVars>>

(* Mutant: the +0.1 of the default entry is carried into the next week *)
WeekFailedFedBack ==
    /\ pc = "loop"
    /\ ~FeaturesRaise(user_data)
    /\ predictions' = Append(predictions,
                             GetDefaultWeekPrediction(current_weight, week))
    /\ stepLog' = Append(stepLog,
                         [weight |-> current_weight, energy |-> current_energy,
                          ok |-> FALSE, raw |-> NoAnswer])
    /\ current_weight' = current_weight + 10
    /\ current_energy' = 600
    /\ pc' = AfterWeek
    /\ week' = IF week = weeks_ahead THEN week ELSE week + 1
    /\ UNCHANGED <<is_trained, trainCall, user_data, weeks_ahead, goalVars,
                   nutritionVars, activityVars, engineVars, dbVars>>

(* One iteration in which scaling or a prediction raises inside the try *)
WeekFailed ==
    /\ pc = "loop"
    /\ ~FeaturesRaise(user_data)
    /\ predictions' = Append(predictions,
                             GetDefaultWeekPrediction(current_weight, week))
    /\ stepLog' = Append(stepLog,
                         [weight |-> current_weight, energy |-> current_energy,
                          ok |-> FALSE, raw |-> NoAnswer])
    /\ pc' = AfterWeek
    /\ week' = IF week = weeks_ahead THEN week ELSE week + 1
    /\ UNCHANGED <<is_trained, trainCall, user_data, weeks_ahead, current_weight,
                   current_energy, goalVars,
                   nutritionVars, activityVars, engineVars, dbVars>>

----------------------------------------------------------------------------
(* RecommendationEngine.  A string the code lower-cases is the sequence of  *)
(* its characters.                                                         *)

UpperCase == <<"A", "B", "C", "D", "E", "F", "G", "H", "I", "J", "K", "L", "M",
               "N", "O", "P", "Q", "R", "S", "T", "U", "V", "W", "X", "Y", "Z">>
LowerCase == <<"a", "b", "c", "d", "e", "f", "g", "h", "i", "j", "k", "l", "m",
               "n", "o", "p", "q", "r", "s", "t", "u", "v", "w", "x", "y", "z">>

LowerChar(c) ==
    IF \E i \in 1..Len(UpperCase) : UpperCase[i] = c
    THEN LowerCase[CHOOSE i \in 1..Len(UpperCase) : UpperCase[i] = c]
    ELSE c

(* str.lower() *)
Lower(str) == [i \in 1..Len(str) |-> LowerChar(str[i])]

(* The profiles a caller can pass to calculate_caloric_needs               *)
GenderStrings ==
    { <<"M", "a", "l", "e">>, <<"m", "a", "l", "e">>, <<"M", "A", "L", "E">>,
      <<"F", "e", "m", "a", "l", "e">>, <<"O", "t", "h", "e", "r">>, <<>> }
ActivityLevels == {"Low", "Moderate", "High", "low", "Athlete"}
Ages == {-5, 0, 30, 61}
WeightsKg == {-70, 0, 70}
HeightsCm == {0, 170}
CaloricUsers ==
    [age : Ages, weight : WeightsKg, height : HeightsCm,
     gender : GenderStrings, activity_level : ActivityLevels]

(* Mutant: the gender is compared as it was entered *)
IsMaleAsEntered(gender) == gender = <<"M", "a", "l", "e">>

(* gender.lower() == 'male' *)
IsMale(gender) == Lower(gender) = <<"m", "a", "l", "e">>

(* the BMR in thousandths *)
Bmr1000(u) ==
    IF IsMale(u.gender)
    THEN 88362 + 13397 * u.weight + 4799 * u.height - 5677 * u.age
    ELSE 447593 + 9247 * u.weight + 3098 * u.height - 4330 * u.age

(* activity_multipliers.get(activity_level, 1.55), in fortieths: 1.2 is    *)
(* 48/40, 1.55 is 62/40 and 1.725 is 69/40                                 *)
ActivityMultiplier40(level) ==
    CASE level = "Low" -> 48
      [] level = "Moderate" -> 62
      [] level = "High" -> 69
      [] OTHER -> 62

(* round(bmr * multiplier) *)
DailyCalories(u) ==
    RoundDiv(Bmr1000(u) * ActivityMultiplier40(u.activity_level), 40000)

(* The caller is done with the value the engine returned to it *)
ConsumeEngineResult ==
    /\ engineArgs # NoResult
    /\ engineArgs' = NoResult
    /\ engineResult' = NoResult
    /\ UNCHANGED <<nutritionVars, activityVars, predictVars, dbVars>>

CalculateCaloricNeeds ==
    /\ engineArgs = NoResult
    /\ \E u \in CaloricUsers :
          /\ engineArgs' = [kind |-> "call", call |-> "calculate_caloric_needs",
                            user_data |-> u]
          /\ engineResult' = [kind |-> "returned", value |-> DailyCalories(u)]
    /\ UNCHANGED <<nutritionVars, activityVars, predictVars, dbVars>>


(* Goal and restriction names, as sequences of characters *)
weight_loss == <<"w", "e", "i", "g", "h", "t", "_", "l", "o", "s", "s">>
Weight_Loss == <<"W", "e", "i", "g", "h", "t", "_", "L", "o", "s", "s">>
muscle_gain == <<"m", "u", "s", "c", "l", "e", "_", "g", "a", "i", "n">>
heart_health == <<"h", "e", "a", "r", "t", "_", "h", "e", "a", "l", "t", "h">>
diabetes_management ==
    <<"d", "i", "a", "b", "e", "t", "e", "s", "_",
      "m", "a", "n", "a", "g", "e", "m", "e", "n", "t">>
energy_boost == <<"e", "n", "e", "r", "g", "y", "_", "b", "o", "o", "s", "t">>
flexibility == <<"f", "l", "e", "x", "i", "b", "i", "l", "i", "t", "y">>
stress_relief ==
    <<"s", "t", "r", "e", "s", "s",
      "_", "r", "e", "l", "i", "e", "f">>
fitness_improvement ==
    <<"f", "i", "t", "n", "e", "s", "s", "_", "i",
      "m", "p", "r", "o", "v", "e", "m", "e", "n", "t">>
vegan == <<"v", "e", "g", "a", "n">>
Vegan == <<"V", "e", "g", "a", "n">>
vegetarian == <<"v", "e", "g", "e", "t", "a", "r", "i", "a", "n">>
diabetic == <<"d", "i", "a", "b", "e", "t", "i", "c">>
hypertension == <<"h", "y", "p", "e", "r", "t", "e", "n", "s", "i", "o", "n">>
gluten_free == <<"g", "l", "u", "t", "e", "n", "_", "f", "r", "e", "e">>
keto == <<"k", "e", "t", "o">>

(* A recommendation string: its text and, where the text is formatted from *)
(* a name the user entered, that name                                      *)
Str(text) == [text |-> text, arg |-> <<>>]

Range(seq) == {seq[i] : i \in 1..Len(seq)}

(* goal_nutrition.get(goal.lower(), []) *)
GetNutritionRecommendationsForGoal(goal) ==
    CASE Lower(goal) = weight_loss ->
            <<Str("Create a moderate caloric deficit through portion control"),
              Str("Increase protein intake to preserve muscle mass"),
              Str("Focus on high-fiber foods for satiety")>>
      [] Lower(goal) = muscle_gain ->
            <<Str("Increase protein intake to 1.6-2.2g per kg body weight"),
              Str("Ensure adequate caloric intake to support muscle growth"),
              Str("Include post-workout protein within 30 minutes")>>
      [] Lower(goal) = heart_health ->
            <<Str("Reduce sodium intake and increase potassium-rich foods"),
              Str("Include omega-3 fatty acids from fish or plant sources"),
              Str("Limit saturated fats and trans fats")>>
      [] Lower(goal) = diabetes_management ->
            <<Str("Focus on complex carbohydrates and fiber"),
              Str("Monitor portion sizes and meal timing"),
              Str("Include chromium and magnesium-rich foods")>>
      [] Lower(goal) = energy_boost ->
            <<Str("Ensure adequate iron and B-vitamin intake"),
              Str("Include complex carbohydrates for sustained energy"),
              Str("Stay well-hydrated throughout the day")>>
      [] OTHER -> <<>>

(* goal_exercise.get(goal.lower(), []) *)
GetExerciseRecommendationsForGoal(goal) ==
    CASE Lower(goal) = weight_loss ->
            <<Str("Include both cardio and strength training"),
              Str("Try high-intensity interval training (HIIT)"),
              Str("Aim for 150+ minutes of moderate cardio weekly")>>
      [] Lower(goal) = muscle_gain ->
            <<Str("Focus on progressive resistance training"),
              Str("Include compound movements like squats and deadlifts"),
              Str("Allow adequate rest between strength sessions")>>
      [] Lower(goal) = heart_health ->
            <<Str("Prioritize cardiovascular exercises"),
              Str("Include activities like swimming, cycling, or walking"),
              Str("Monitor heart rate during exercise")>>
      [] Lower(goal) = flexibility ->
            <<Str("Include daily stretching or yoga"),
              Str("Focus on major muscle groups"),
              Str("Hold stretches for 15-30 seconds")>>
      [] Lower(goal) = stress_relief ->
            <<Str("Try mind-body exercises like yoga or tai chi"),
              Str("Include outdoor activities when possible"),
              Str("Focus on rhythmic, meditative movements")>>
      [] OTHER -> <<>>

(* cultural_preferences[background]['preferred_foods'][:3], joined         *)
CulturalRecommendation(background) ==
    CASE background = "Indian" ->
            <<Str("Include culturally familiar foods: Rice, Lentils, Vegetables")>>
      [] background = "Mediterranean" ->
            <<Str("Include culturally familiar foods: Olive Oil, Fish, Vegetables")>>
      [] background = "Asian" ->
            <<Str("Include culturally familiar foods: Rice, Fish, Vegetables")>>
      [] background = "Western" ->
            <<Str("Include culturally familiar foods: Meat, Dairy, Bread")>>
      [] OTHER -> <<>>

(* dietary_restrictions[restriction.lower()]['emphasize'][:2], joined after *)
(* the name as the user entered it                                         *)
DietaryRecommendation(restriction) ==
    CASE Lower(restriction) = vegetarian ->
            <<[text |-> "For {} diet: emphasize Legumes, Nuts", arg |-> restriction]>>
      [] Lower(restriction) = vegan ->
            <<[text |-> "For {} diet: emphasize Legumes, Nuts", arg |-> restriction]>>
      [] Lower(restriction) = diabetic ->
            <<[text |-> "For {} diet: emphasize Complex carbs, Fiber-rich foods",
               arg |-> restriction]>>
      [] Lower(restriction) = hypertension ->
            <<[text |-> "For {} diet: emphasize Potassium-rich foods, Whole grains",
               arg |-> restriction]>>
      [] Lower(restriction) = gluten_free ->
            <<[text |-> "For {} diet: emphasize Rice, Quinoa", arg |-> restriction]>>
      [] OTHER -> <<>>

RECURSIVE DietaryRecommendations(_)
DietaryRecommendations(prefs) ==
    IF prefs = <<>> THEN <<>>
    ELSE DietaryRecommendation(Head(prefs)) \o DietaryRecommendations(Tail(prefs))

RECURSIVE NutritionGoalRecommendations(_)
NutritionGoalRecommendations(goals) ==
    IF goals = <<>> THEN <<>>
    ELSE GetNutritionRecommendationsForGoal(Head(goals))
         \o NutritionGoalRecommendations(Tail(goals))

RECURSIVE ExerciseGoalRecommendations(_)
ExerciseGoalRecommendations(goals) ==
    IF goals = <<>> THEN <<>>
    ELSE GetExerciseRecommendationsForGoal(Head(goals))
         \o ExerciseGoalRecommendations(Tail(goals))

(* cluster_recommendations[:2] when the user has a cluster *)
ClusterRecommendations(user_cluster, cluster_recommendations) ==
    IF user_cluster # -1
    THEN SubSeq(cluster_recommendations, 1, Min(2, Len(cluster_recommendations)))
    ELSE <<>>

ActivityLevelRecommendation(level) ==
    IF level = "Low"
    THEN <<Str("Start with low-impact exercises and gradually increase intensity")>>
    ELSE IF level = "High"
    THEN <<Str("Challenge yourself with advanced training techniques")>>
    ELSE <<>>

AgeRecommendation(age) ==
    IF age > 50
    THEN <<Str("Include balance and flexibility exercises for healthy aging")>>
    ELSE IF age < 25
    THEN <<Str("Take advantage of high recovery capacity with varied training")>>
    ELSE <<>>

(* Mutant: the list is returned as it was put together *)
AsCollected(recommendations) ==
    [r \in Range(recommendations) |->
        Cardinality({i \in 1..Len(recommendations) : recommendations[i] = r})]

(* list(set(recommendations)): the returned list, whose order is not fixed, *)
(* as the number of times each string is in it                             *)
Deduplicated(recommendations) == [r \in Range(recommendations) |-> 1]

(* What the callers pass *)
BaseRecommendationChoices ==
    { <<>>,
      <<Str("Increase food variety to ensure diverse nutrient intake.")>>,
      <<Str("Include both cardio and strength training"),
        Str("Increase protein intake to preserve muscle mass"),
        Str("Include both cardio and strength training")>> }
CulturalBackgrounds == {"Indian", "Western", "Nordic"}
DietaryPreferenceChoices == {<<>>, <<vegan>>, <<Vegan, vegan>>, <<keto, diabetic>>}
GoalNames == {weight_loss, Weight_Loss, muscle_gain, flexibility, fitness_improvement}
HealthGoalChoices ==
    {<<>>} \cup {<<g>> : g \in GoalNames} \cup {<<g, h>> : g, h \in GoalNames}
ClusterRecommendationChoices ==
    { <<>>,
      <<Str("Start with light exercises like walking or swimming"),
        Str("Gradually increase activity level over time"),
        Str("Set realistic fitness goals and track progress")>> }
UserClusters == {-1, 0}

GenerateNutritionRecommendations_Engine ==
    /\ engineArgs = NoResult
    /\ \E base \in BaseRecommendationChoices, background \in CulturalBackgrounds,
          prefs \in DietaryPreferenceChoices, goals \in HealthGoalChoices,
          cluster \in UserClusters, ofCluster \in ClusterRecommendationChoices :
          /\ engineArgs' =
                [kind |-> "call", call |-> "generate_nutrition_recommendations",
                 base |-> base, cultural_background |-> background,
                 dietary_preferences |-> prefs, health_goals |-> goals,
                 user_cluster |-> cluster, cluster_recommendations |-> ofCluster]
          /\ engineResult' =
                [kind |-> "returned",
                 value |-> Deduplicated(
                     base
                     \o CulturalRecommendation(background)
                     \o DietaryRecommendations(prefs)
                     \o ClusterRecommendations(cluster, ofCluster)
                     \o NutritionGoalRecommendations(goals))]
    /\ UNCHANGED <<nutritionVars, activityVars, predictVars, dbVars>>

GenerateExerciseRecommendations_Engine ==
    /\ engineArgs = NoResult
    /\ \E base \in BaseRecommendationChoices, goals \in HealthGoalChoices,
          level \in {"Low", "Moderate", "High"}, age \in {20, 30, 60} :
          /\ engineArgs' =
                [kind |-> "call", call |-> "generate_exercise_recommendations",
                 base |-> base, health_goals |-> goals,
                 activity_level |-> level, age |-> age]
          /\ engineResult' =
                [kind |-> "returned",
                 value |-> Deduplicated(
                     base
                     \o ExerciseGoalRecommendations(goals)
                     \o ActivityLevelRecommendation(level)
                     \o AgeRecommendation(age))]
    /\ UNCHANGED <<nutritionVars, activityVars, predictVars, dbVars>>

NextRecommend ==
    \/ GenerateNutritionRecommendations_Engine
    \/ GenerateExerciseRecommendations_Engine
    \/ ConsumeEngineResult

NextCaloricNeeds == CalculateCaloricNeeds \/ ConsumeEngineResult

----------------------------------------------------------------------------
(* ProgressPredictor.estimate_exercise_from_plan.  A plan is the sequence  *)
(* of its values (one per day, in the dict's order); an exercise is the    *)
(* sequence holding its 'duration', empty when the key is missing.         *)

(* The day plans a caller can pass: a value that is not a dict, a dict     *)
(* without 'exercises', and dicts with the lists create_weekly_plan builds *)
(* (21 = int(30 * 0.7), 45, 58 = int(45 * 1.3)), one exercise lacking its  *)
(* duration.                                                               *)
DayPlanChoices ==
    { [is_dict |-> FALSE, has_exercises |-> FALSE, exercises |-> <<>>],
      [is_dict |-> TRUE, has_exercises |-> FALSE, exercises |-> <<>>],
      [is_dict |-> TRUE, has_exercises |-> TRUE, exercises |-> <<>>],
      [is_dict |-> TRUE, has_exercises |-> TRUE, exercises |-> << <<21>>, <<21>> >>],
      [is_dict |-> TRUE, has_exercises |-> TRUE, exercises |-> << <<45>> >>],
      [is_dict |-> TRUE, has_exercises |-> TRUE, exercises |-> << <<>>, <<58>> >>] }

RECURSIVE PlanChoices(_)
PlanChoices(n) ==
    IF n = 0 THEN {<<>>}
    ELSE PlanChoices(n - 1)
         \cup {Append(plan, day) : plan \in {q \in PlanChoices(n - 1) : Len(q) = n - 1},
                                   day \in DayPlanChoices}

(* Mutant: an exercise without a duration adds nothing *)
ExerciseDurationOrZero(exercise) ==
    IF exercise = <<>> THEN 0 ELSE exercise[1]

(* exercise.get('duration', 30) *)
ExerciseDuration(exercise) ==
    IF exercise = <<>> THEN 30 ELSE exercise[1]

(* isinstance(day_plan, dict) and 'exercises' in day_plan *)
IsExerciseDay(day_plan) == day_plan.is_dict /\ day_plan.has_exercises

RECURSIVE SumDurations(_)
SumDurations(exercises) ==
    IF exercises = <<>> THEN 0
    ELSE ExerciseDuration(Head(exercises)) + SumDurations(Tail(exercises))

(* the loop over exercise_plan.values(): total_duration, total_calories    *)
(* and frequency after the days of the plan                                *)
RECURSIVE PlanTotals(_)
PlanTotals(plan) ==
    IF plan = <<>> THEN [total_duration |-> 0, total_calories |-> 0, frequency |-> 0]
    ELSE LET before == PlanTotals(SubSeq(plan, 1, Len(plan) - 1))
             day_plan == plan[Len(plan)]
         IN  IF IsExerciseDay(day_plan)
             THEN [total_duration |->
                       before.total_duration + SumDurations(day_plan.exercises),
                   total_calories |->
                       before.total_calories + 5 * SumDurations(day_plan.exercises),
                   frequency |-> before.frequency + 1]
             ELSE before

(* the returned triple; the average is an exact quotient *)
EstimateExerciseFromPlan(plan) ==
    LET t == PlanTotals(plan)
    IN  [total_duration |-> t.total_duration,
         avg_calories_burned |->
             IF t.frequency > 0
             THEN Rat(t.total_calories, Max(t.frequency, 1))
             ELSE R(0),
         frequency |-> t.frequency]

EstimateExerciseFromPlan_Call ==
    /\ engineArgs = NoResult
    /\ \E plan \in PlanChoices(MaxPlanDays) :
          /\ engineArgs' = [kind |-> "call", call |-> "estimate_exercise_from_plan",
                            exercise_plan |-> plan]
          /\ engineResult' = [kind |-> "returned",
                              value |-> EstimateExerciseFromPlan(plan)]
    /\ UNCHANGED <<nutritionVars, activityVars, predictVars, dbVars>>

NextPlanEstimate == EstimateExerciseFromPlan_Call \/ ConsumeEngineResult

----------------------------------------------------------------------------
(* RecommendationEngine.suggest_meal.  A suggestion, an avoided food and a  *)
(* dietary preference are sequences of characters; a meal type and a       *)
(* cultural background are looked up as they are.                          *)

(* dietary_restrictions[key]['avoid'] *)
AvoidFoods(key) ==
    CASE key = vegetarian ->
            <<<<"C", "h", "i", "c", "k", "e", "n">>,
              <<"B", "e", "e", "f">>,
              <<"P", "o", "r", "k">>,
              <<"F", "i", "s", "h">>,
              <<"T", "u", "r", "k", "e", "y">>>>
      [] key = vegan ->
            <<<<"C", "h", "i", "c", "k", "e", "n">>,
              <<"B", "e", "e", "f">>,
              <<"P", "o", "r", "k">>,
              <<"F", "i", "s", "h">>,
              <<"D", "a", "i", "r", "y">>,
              <<"E", "g", "g", "s">>>>
      [] key = diabetic ->
            <<<<"H", "i", "g", "h", " ", "s", "u", "g", "a", "r", " ", "f",
                "o", "o", "d", "s">>,
              <<"R", "e", "f", "i", "n", "e", "d", " ", "c", "a", "r", "b",
                "s">>,
              <<"S", "u", "g", "a", "r", "y", " ", "d", "r", "i", "n", "k",
                "s">>>>
      [] key = hypertension ->
            <<<<"H", "i", "g", "h", " ", "s", "o", "d", "i", "u", "m", " ",
                "f", "o", "o", "d", "s">>,
              <<"P", "r", "o", "c", "e", "s", "s", "e", "d", " ", "f", "o",
                "o", "d", "s">>>>
      [] key = gluten_free ->
            <<<<"W", "h", "e", "a", "t">>,
              <<"B", "a", "r", "l", "e", "y">>,
              <<"R", "y", "e">>,
              <<"B", "r", "e", "a", "d">>,
              <<"P", "a", "s", "t", "a">>>>
      [] OTHER -> <<>>

(* preference.lower() in self.dietary_restrictions *)
IsDietaryRestriction(key) ==
    key \in {vegetarian, vegan, diabetic, hypertension, gluten_free}

(* meal_suggestions.get(meal_type, {}).get(cultural_background, []) *)
BaseSuggestions(meal_type, cultural_background) ==
    CASE meal_type = "breakfast" /\ cultural_background = "Indian" ->
            <<<<"O", "a", "t", "s", " ", "w", "i", "t", "h", " ", "n", "u",
                "t", "s", " ", "a", "n", "d", " ", "f", "r", "u", "i", "t",
                "s">>,
              <<"V", "e", "g", "e", "t", "a", "b", "l", "e", " ", "u", "p",
                "m", "a">>,
              <<"W", "h", "o", "l", "e", " ", "w", "h", "e", "a", "t", " ",
                "p", "a", "r", "a", "t", "h", "a", " ", "w", "i", "t", "h",
                " ", "y", "o", "g", "u", "r", "t">>>>
      [] meal_type = "breakfast" /\ cultural_background = "Mediterranean" ->
            <<<<"G", "r", "e", "e", "k", " ", "y", "o", "g", "u", "r", "t",
                " ", "w", "i", "t", "h", " ", "b", "e", "r", "r", "i", "e",
                "s">>,
              <<"W", "h", "o", "l", "e", " ", "g", "r", "a", "i", "n", " ",
                "t", "o", "a", "s", "t", " ", "w", "i", "t", "h", " ", "a",
                "v", "o", "c", "a", "d", "o">>,
              <<"O", "a", "t", "m", "e", "a", "l", " ", "w", "i", "t", "h",
                " ", "n", "u", "t", "s">>>>
      [] meal_type = "breakfast" /\ cultural_background = "Asian" ->
            <<<<"C", "o", "n", "g", "e", "e", " ", "w", "i", "t", "h", " ",
                "v", "e", "g", "e", "t", "a", "b", "l", "e", "s">>,
              <<"S", "t", "e", "a", "m", "e", "d", " ", "v", "e", "g", "e",
                "t", "a", "b", "l", "e", "s", " ", "w", "i", "t", "h", " ",
                "r", "i", "c", "e">>,
              <<"M", "i", "s", "o", " ", "s", "o", "u", "p", " ", "w", "i",
                "t", "h", " ", "t", "o", "f", "u">>>>
      [] meal_type = "breakfast" /\ cultural_background = "Western" ->
            <<<<"O", "a", "t", "m", "e", "a", "l", " ", "w", "i", "t", "h",
                " ", "f", "r", "u", "i", "t", "s">>,
              <<"S", "c", "r", "a", "m", "b", "l", "e", "d", " ", "e", "g",
                "g", "s", " ", "w", "i", "t", "h", " ", "v", "e", "g", "e",
                "t", "a", "b", "l", "e", "s">>,
              <<"W", "h", "o", "l", "e", " ", "g", "r", "a", "i", "n", " ",
                "c", "e", "r", "e", "a", "l">>>>
      [] meal_type = "lunch" /\ cultural_background = "Indian" ->
            <<<<"D", "a", "l", " ", "w", "i", "t", "h", " ", "r", "i", "c",
                "e", " ", "a", "n", "d", " ", "v", "e", "g", "e", "t", "a",
                "b", "l", "e", "s">>,
              <<"Q", "u", "i", "n", "o", "a", " ", "p", "u", "l", "a", "o">>,
              <<"M", "i", "x", "e", "d", " ", "v", "e", "g", "e", "t", "a",
                "b", "l", "e", " ", "c", "u", "r", "r", "y", " ", "w", "i",
                "t", "h", " ", "r", "o", "t", "i">>>>
      [] meal_type = "lunch" /\ cultural_background = "Mediterranean" ->
            <<<<"G", "r", "i", "l", "l", "e", "d", " ", "f", "i", "s", "h",
                " ", "w", "i", "t", "h", " ", "v", "e", "g", "e", "t", "a",
                "b", "l", "e", "s">>,
              <<"Q", "u", "i", "n", "o", "a", " ", "s", "a", "l", "a", "d">>,
              <<"L", "e", "n", "t", "i", "l", " ", "s", "o", "u", "p", " ",
                "w", "i", "t", "h", " ", "b", "r", "e", "a", "d">>>>
      [] meal_type = "lunch" /\ cultural_background = "Asian" ->
            <<<<"S", "t", "i", "r", "-", "f", "r", "i", "e", "d", " ", "v",
                "e", "g", "e", "t", "a", "b", "l", "e", "s", " ", "w", "i",
                "t", "h", " ", "b", "r", "o", "w", "n", " ", "r", "i", "c",
                "e">>,
              <<"M", "i", "s", "o", " ", "s", "o", "u", "p", " ", "w", "i",
                "t", "h", " ", "s", "a", "l", "m", "o", "n">>,
              <<"T", "o", "f", "u", " ", "w", "i", "t", "h", " ", "s", "t",
                "e", "a", "m", "e", "d", " ", "v", "e", "g", "e", "t", "a",
                "b", "l", "e", "s">>>>
      [] meal_type = "lunch" /\ cultural_background = "Western" ->
            <<<<"G", "r", "i", "l", "l", "e", "d", " ", "c", "h", "i", "c",
                "k", "e", "n", " ", "s", "a", "l", "a", "d">>,
              <<"Q", "u", "i", "n", "o", "a", " ", "b", "o", "w", "l", " ",
                "w", "i", "t", "h", " ", "v", "e", "g", "e", "t", "a", "b",
                "l", "e", "s">>,
              <<"L", "e", "a", "n", " ", "m", "e", "a", "t", " ", "w", "i",
                "t", "h", " ", "s", "w", "e", "e", "t", " ", "p", "o", "t",
                "a", "t", "o">>>>
      [] meal_type = "dinner" /\ cultural_background = "Indian" ->
            <<<<"K", "h", "i", "c", "h", "d", "i", " ", "w", "i", "t", "h",
                " ", "v", "e", "g", "e", "t", "a", "b", "l", "e", "s">>,
              <<"G", "r", "i", "l", "l", "e", "d", " ", "p", "a", "n", "e",
                "e", "r", " ", "w", "i", "t", "h", " ", "s", "a", "l", "a",
                "d">>,
              <<"V", "e", "g", "e", "t", "a", "b", "l", "e", " ", "s", "o",
                "u", "p", " ", "w", "i", "t", "h", " ", "r", "o", "t", "i">>>>
      [] meal_type = "dinner" /\ cultural_background = "Mediterranean" ->
            <<<<"G", "r", "i", "l", "l", "e", "d", " ", "f", "i", "s", "h",
                " ", "w", "i", "t", "h", " ", "q", "u", "i", "n", "o", "a">>,
              <<"V", "e", "g", "e", "t", "a", "b", "l", "e", " ", "s", "t",
                "e", "w">>,
              <<"L", "e", "n", "t", "i", "l", " ", "s", "a", "l", "a", "d">>>>
      [] meal_type = "dinner" /\ cultural_background = "Asian" ->
            <<<<"S", "t", "e", "a", "m", "e", "d", " ", "f", "i", "s", "h",
                " ", "w", "i", "t", "h", " ", "v", "e", "g", "e", "t", "a",
                "b", "l", "e", "s">>,
              <<"V", "e", "g", "e", "t", "a", "b", "l", "e", " ", "s", "t",
                "i", "r", "-", "f", "r", "y">>,
              <<"M", "i", "s", "o", " ", "s", "o", "u", "p", " ", "w", "i",
                "t", "h", " ", "t", "o", "f", "u">>>>
      [] meal_type = "dinner" /\ cultural_background = "Western" ->
            <<<<"G", "r", "i", "l", "l", "e", "d", " ", "s", "a", "l", "m",
                "o", "n", " ", "w", "i", "t", "h", " ", "b", "r", "o", "c",
                "c", "o", "l", "i">>,
              <<"C", "h", "i", "c", "k", "e", "n", " ", "b", "r", "e", "a",
                "s", "t", " ", "w", "i", "t", "h", " ", "q", "u", "i", "n",
                "o", "a">>,
              <<"V", "e", "g", "e", "t", "a", "b", "l", "e", " ", "s", "o",
                "u", "p">>>>
      [] meal_type = "snacks" /\ cultural_background = "Indian" ->
            <<<<"M", "i", "x", "e", "d", " ", "n", "u", "t", "s">>,
              <<"F", "r", "u", "i", "t", " ", "s", "a", "l", "a", "d">>,
              <<"R", "o", "a", "s", "t", "e", "d", " ", "c", "h", "i", "c",
                "k", "p", "e", "a", "s">>>>
      [] meal_type = "snacks" /\ cultural_background = "Mediterranean" ->
            <<<<"H", "u", "m", "m", "u", "s", " ", "w", "i", "t", "h", " ",
                "v", "e", "g", "e", "t", "a", "b", "l", "e", "s">>,
              <<"G", "r", "e", "e", "k", " ", "y", "o", "g", "u", "r", "t">>,
              <<"M", "i", "x", "e", "d", " ", "o", "l", "i", "v", "e", "s",
                " ", "a", "n", "d", " ", "n", "u", "t", "s">>>>
      [] meal_type = "snacks" /\ cultural_background = "Asian" ->
            <<<<"G", "r", "e", "e", "n", " ", "t", "e", "a", " ", "w", "i",
                "t", "h", " ", "a", "l", "m", "o", "n", "d", "s">>,
              <<"E", "d", "a", "m", "a", "m", "e">>,
              <<"F", "r", "e", "s", "h", " ", "f", "r", "u", "i", "t">>>>
      [] meal_type = "snacks" /\ cultural_background = "Western" ->
            <<<<"A", "p", "p", "l", "e", " ", "w", "i", "t", "h", " ", "n",
                "u", "t", " ", "b", "u", "t", "t", "e", "r">>,
              <<"G", "r", "e", "e", "k", " ", "y", "o", "g", "u", "r", "t">>,
              <<"M", "i", "x", "e", "d", " ", "b", "e", "r", "r", "i", "e",
                "s">>>>
      [] OTHER -> <<>>

(* generic_options.get(meal_type, ['Healthy balanced meal']) *)
GenericOptions(meal_type) ==
    CASE meal_type = "breakfast" ->
            <<<<"O", "a", "t", "m", "e", "a", "l", " ", "w", "i", "t", "h",
                " ", "f", "r", "u", "i", "t", "s">>,
              <<"S", "m", "o", "o", "t", "h", "i", "e", " ", "w", "i", "t",
                "h", " ", "v", "e", "g", "e", "t", "a", "b", "l", "e", "s">>>>
      [] meal_type = "lunch" ->
            <<<<"Q", "u", "i", "n", "o", "a", " ", "s", "a", "l", "a", "d">>,
              <<"V", "e", "g", "e", "t", "a", "b", "l", "e", " ", "s", "o",
                "u", "p">>>>
      [] meal_type = "dinner" ->
            <<<<"G", "r", "i", "l", "l", "e", "d", " ", "v", "e", "g", "e",
                "t", "a", "b", "l", "e", "s">>,
              <<"L", "e", "n", "t", "i", "l", " ", "c", "u", "r", "r", "y">>>>
      [] meal_type = "snacks" ->
            <<<<"F", "r", "e", "s", "h", " ", "f", "r", "u", "i", "t">>,
              <<"M", "i", "x", "e", "d", " ", "n", "u", "t", "s">>>>
      [] OTHER ->
            <<<<"H", "e", "a", "l", "t", "h", "y", " ", "b", "a", "l", "a",
                "n", "c", "e", "d", " ", "m", "e", "a", "l">>>>

ExtraProtein ==
    <<" ", "(", "a", "d", "d", " ", "e", "x", "t", "r", "a", " ", "p", "r",
      "o", "t", "e", "i", "n", ")">>

(* avoid_food.lower() in suggestion.lower(), both already lower-cased *)
IsSubstring(needle, hay) ==
    \E i \in 0..(Len(hay) - Len(needle)) :
        \A j \in 1..Len(needle) : hay[i + j] = needle[j]

(* Mutant: the avoided food is looked for in the suggestion as written *)
AvoidsCaseSensitive(preference, suggestion) ==
    /\ IsDietaryRestriction(Lower(preference))
    /\ \E a \in Range(AvoidFoods(Lower(preference))) :
          IsSubstring(a, suggestion)

(* one pass of the loop over dietary_preferences that clears is_suitable *)
Avoids(preference, suggestion) ==
    /\ IsDietaryRestriction(Lower(preference))
    /\ \E a \in Range(AvoidFoods(Lower(preference))) :
          IsSubstring(Lower(a), Lower(suggestion))

IsSuitable(suggestion, dietary_preferences) ==
    \A p \in Range(dietary_preferences) : ~Avoids(p, suggestion)

RECURSIVE FilterSuitable(_, _)
FilterSuitable(suggestions, dietary_preferences) ==
    IF suggestions = <<>> THEN <<>>
    ELSE (IF IsSuitable(Head(suggestions), dietary_preferences)
          THEN <<Head(suggestions)>> ELSE <<>>)
         \o FilterSuitable(Tail(suggestions), dietary_preferences)

(* nutritional_gaps is the set of the nutrients that have a gap *)
SuggestMeal(meal_type, nutritional_gaps, dietary_preferences, cultural_background) ==
    LET base_suggestions == BaseSuggestions(meal_type, cultural_background)
        filtered == FilterSuitable(base_suggestions, dietary_preferences)
        chosen == IF filtered = <<>> THEN GenericOptions(meal_type) ELSE filtered
        noted == IF "protein" \in nutritional_gaps /\ meal_type \in {"lunch", "dinner"}
                 THEN [i \in 1..Len(chosen) |-> chosen[i] \o ExtraProtein]
                 ELSE chosen
    IN  SubSeq(noted, 1, IF Len(noted) < 3 THEN Len(noted) ELSE 3)

(* The arguments a caller can pass to suggest_meal *)
MealTypes == {"breakfast", "lunch", "dinner", "snacks", "brunch"}
MealCultures == {"Indian", "Mediterranean", "Asian", "Western", "Other"}
GapNutrientSets == {{}, {"protein"}, {"calories", "fiber"}}
MealPreferenceChoices ==
    { <<>>, <<vegetarian>>, <<Vegan>>, <<gluten_free>>, <<keto>>,
      <<keto, vegetarian>>, <<vegan, gluten_free>>, <<diabetic, hypertension>>,
      <<vegetarian, vegan, diabetic, hypertension, gluten_free>> }

SuggestMeal_Call ==
    /\ engineArgs = NoResult
    /\ \E m \in MealTypes, g \in GapNutrientSets,
          p \in MealPreferenceChoices, c \in MealCultures :
          /\ engineArgs' = [kind |-> "call", call |-> "suggest_meal",
                            meal_type |-> m, nutritional_gaps |-> g,
                            dietary_preferences |-> p, cultural_background |-> c]
          /\ engineResult' = [kind |-> "returned",
                              value |-> SuggestMeal(m, g, p, c)]
    /\ UNCHANGED <<nutritionVars, activityVars, predictVars, dbVars>>

NextSuggestMeal == SuggestMeal_Call \/ ConsumeEngineResult

----------------------------------------------------------------------------
(* ProgressPredictor.analyze_goal_achievement                              *)

(* Mutant: the first week's entry is classified *)
FinalWeekFirst(preds) == 1

(* f'Week_{len(predictions)}' *)
FinalWeek(preds) == Len(preds)

WeightLossTier(weight_change) ==
    IF weight_change < -100 THEN "On track - predicted weight loss"
    ELSE IF weight_change < 0 THEN "Slow progress - minor weight loss predicted"
    ELSE "Not on track - no weight loss predicted"

FitnessTier(energy_level) ==
    IF energy_level > 700 THEN "Good progress - high energy levels predicted"
    ELSE IF energy_level > 500 THEN "Moderate progress - stable energy levels"
    ELSE "Consider adjusting plan - low energy predicted"

(* what one pass of the loop body stores under the goal: a sequence with   *)
(* the stored text, or the empty sequence when nothing is stored           *)
GoalEntry(preds, goal) ==
    CASE Lower(goal) = weight_loss ->
            IF FinalWeek(preds) \in DOMAIN preds
            THEN <<WeightLossTier(preds[FinalWeek(preds)].weight_change)>>
            ELSE <<>>
      [] Lower(goal) = muscle_gain ->
            <<"Moderate progress expected with consistent training">>
      [] Lower(goal) = fitness_improvement ->
            IF FinalWeek(preds) \in DOMAIN preds
            THEN <<FitnessTier(preds[FinalWeek(preds)].energy_level)>>
            ELSE <<>>
      [] OTHER -> <<>>

(* the returned dict: the goals as entered that got an entry, and the text *)
GoalAchievement(preds, goals) ==
    [goal \in {g \in Range(goals) : GoalEntry(preds, g) # <<>>} |->
        GoalEntry(preds, goal)[1]]

(* user_data['health_goals'] *)
UserGoalChoices ==
    { <<>>, <<weight_loss>>, <<fitness_improvement>>,
      <<Weight_Loss, fitness_improvement>>,
      <<muscle_gain, flexibility>>,
      <<weight_loss, heart_health, weight_loss>> }

(* The caller passes the predictions it was returned, as the application   *)
(* does when the dict is not empty                                         *)
AnalyzeGoalAchievement ==
    /\ pc = "returned"
    /\ predictions # <<>>
    /\ goalAnalysis = NoResult
    /\ \E goals \in UserGoalChoices :
          /\ user_goals' = goals
          /\ goalAnalysis' = [kind |-> "returned",
                              value |-> GoalAchievement(predictions, goals)]
    /\ UNCHANGED <<is_trained, trainCall, user_data, weeks_ahead, week, current_weight,
                   current_energy, predictions, stepLog, pc,
                   nutritionVars, activityVars, engineVars, dbVars>>

----------------------------------------------------------------------------
(* DatabaseManager: the users table, create_user and get_user.  A text     *)
(* that goes through json is the sequence of its characters.               *)

(* Mutant: a string is written between quotes as it is *)
JsonEscapeNothing(str) == str

(* json.dumps of a string, without the quotes: a quote and a backslash are  *)
(* preceded by a backslash                                                 *)
RECURSIVE JsonEscape(_)
JsonEscape(str) ==
    IF str = <<>> THEN <<>>
    ELSE (IF Head(str) \in {"\"", "\\"} THEN <<"\\", Head(str)>>
          ELSE <<Head(str)>>) \o JsonEscape(Tail(str))

RECURSIVE JsonItems(_)
JsonItems(list) ==
    IF list = <<>> THEN <<>>
    ELSE <<"\"">> \o JsonEscape(Head(list)) \o <<"\"">>
         \o (IF Tail(list) = <<>> THEN <<>> ELSE <<",", " ">>)
         \o JsonItems(Tail(list))

(* json.dumps(list of strings) *)
JsonDumps(list) == <<"[">> \o JsonItems(list) \o <<"]">>

(* the decoder inside a string, after its opening quote: the characters up *)
(* to the closing quote, and the position after it; an error for a text    *)
(* that ends inside the string                                             *)
RECURSIVE JsonReadString(_, _, _)
JsonReadString(text, i, acc) ==
    IF i > Len(text) THEN [kind |-> "error"]
    ELSE IF text[i] = "\"" THEN [kind |-> "string", value |-> acc, next |-> i + 1]
    ELSE IF text[i] = "\\"
    THEN IF i + 1 > Len(text) THEN [kind |-> "error"]
         ELSE JsonReadString(text, i + 2, Append(acc, text[i + 1]))
    ELSE JsonReadString(text, i + 1, Append(acc, text[i]))

(* the decoder inside an array: the items read so far, then the rest *)
RECURSIVE JsonReadItems(_, _, _)
JsonReadItems(text, i, acc) ==
    IF i > Len(text) THEN [kind |-> "error"]
    ELSE IF text[i] = "]" THEN [kind |-> "list", value |-> acc]
    ELSE IF text[i] \in {",", " "} THEN JsonReadItems(text, i + 1, acc)
    ELSE IF text[i] = "\""
    THEN LET s == JsonReadString(text, i + 1, <<>>)
         IN  IF s.kind = "error" THEN s
             ELSE JsonReadItems(text, s.next, Append(acc, s.value))
    ELSE [kind |-> "error"]

(* json.loads of the text of an array of strings *)
JsonLoads(text) ==
    IF text # <<>> /\ text[1] = "[" THEN JsonReadItems(text, 2, <<>>)
    ELSE [kind |-> "error"]

(* json.loads(user[7]) if user[7] else [] *)
LoadsOrEmpty(text) ==
    IF text # <<>> THEN JsonLoads(text) ELSE [kind |-> "list", value |-> <<>>]

(* The arguments a caller can pass.  UNIQUE compares the usernames as they *)
(* are written.                                                            *)
Usernames == {"alice", "Alice", "bob"}
quoted_item == <<"a", "\"", ",", " ", "\\", "b", "]">>
ListPairs ==
    { <<<<>>, <<>>>>,
      <<<<weight_loss>>, <<vegan, gluten_free>>>>,
      <<<<quoted_item, <<>>>>, <<quoted_item>>>> }
ProfileChoices ==
    { [age |-> 30, gender |-> "Female", height |-> 165, weight |-> 60,
       activity_level |-> "Moderate",
       health_goals |-> l[1], dietary_preferences |-> l[2]] : l \in ListPairs }
    \cup
    { [age |-> 45, gender |-> "Male", height |-> 180, weight |-> 85,
       activity_level |-> "Low",
       health_goals |-> <<weight_loss>>, dietary_preferences |-> <<>>] }

None == [kind |-> "None"]

HasUsername(table, username) ==
    \E i \in 1..Len(table) : table[i].username = username

(* the row INSERT INTO users writes; the numbers and the other texts are   *)
(* stored as given, the two lists as their json text                       *)
UserRow(id, username, p) ==
    [id |-> id, username |-> username, age |-> p.age, gender |-> p.gender,
     height |-> p.height, weight |-> p.weight,
     activity_level |-> p.activity_level,
     health_goals |-> JsonDumps(p.health_goals),
     dietary_preferences |-> JsonDumps(p.dietary_preferences)]

(* the dict get_user builds from the row that was fetched; a text json    *)
(* cannot decode raises out of get_user                                    *)
UserDict(row) ==
    LET goals == LoadsOrEmpty(row.health_goals)
        prefs == LoadsOrEmpty(row.dietary_preferences)
    IN  IF goals.kind = "error" \/ prefs.kind = "error"
        THEN [kind |-> "raised"]
        ELSE [kind |-> "user", id |-> row.id, username |-> row.username,
              age |-> row.age, gender |-> row.gender, height |-> row.height,
              weight |-> row.weight, activity_level |-> row.activity_level,
              health_goals |-> goals.value,
              dietary_preferences |-> prefs.value]

(* create_user: the INSERT raises IntegrityError on a username the table   *)
(* has, the connection is closed without a commit and None is returned;    *)
(* otherwise the row gets the next id of the AUTOINCREMENT key             *)
CreateUser ==
    /\ Len(dbLog) < MaxDbCalls
    /\ \E username \in Usernames, p \in ProfileChoices :
          IF HasUsername(users, username)
          THEN /\ UNCHANGED <<users, sqlite_sequence>>
               /\ dbLog' = Append(dbLog, [call |-> "create_user",
                                          username |-> username, profile |-> p,
                                          result |-> None])
          ELSE \E id \in {sqlite_sequence + 1} :
               /\ users' = Append(users, UserRow(id, username, p))
               /\ sqlite_sequence' = id
               /\ dbLog' = Append(dbLog, [call |-> "create_user",
                                          username |-> username, profile |-> p,
                                          result |-> [kind |-> "id", id |-> id]])
    /\ UNCHANGED <<nutritionVars, activityVars, predictVars, engineVars>>

(* get_user: SELECT * FROM users WHERE username = ?, fetchone() *)
GetUser ==
    /\ Len(dbLog) < MaxDbCalls
    /\ \E username \in Usernames :
          dbLog' = Append(dbLog,
              [call |-> "get_user", username |-> username, profile |-> None,
               result |->
                  IF HasUsername(users, username)
                  THEN UserDict(users[CHOOSE i \in 1..Len(users) :
                                         users[i].username = username])
                  ELSE None])
    /\ UNCHANGED <<users, sqlite_sequence>>
    /\ UNCHANGED <<nutritionVars, activityVars, predictVars, engineVars>>

NextDatabase == CreateUser \/ GetUser

----------------------------------------------------------------------------
(* Specifications.  The three objects share no state: each is checked       *)
(* under its own specification, Spec is their composition.                 *)

Init ==
    /\ foodLog = <<>>
    /\ nutritionResult = NoResult
    /\ exerciseLog = <<>>
    /\ exHasColumn = TRUE
    /\ user_weight = 70
    /\ activityResult = NoResult
    /\ is_trained = FALSE
    /\ trainCall = NoResult
    /\ user_data = [weight |-> 7000, height |-> 170, gender |-> "Male"]
    /\ weeks_ahead = 0
    /\ week = 0
    /\ current_weight = 7000
    /\ current_energy = 500
    /\ predictions = <<>>
    /\ stepLog = <<>>
    /\ pc = "idle"
    /\ user_goals = <<>>
    /\ goalAnalysis = NoResult
    /\ engineArgs = NoResult
    /\ engineResult = NoResult
    /\ users = <<>>
    /\ sqlite_sequence = 0
    /\ dbLog = <<>>

NextNutrition == AddFoodEntry \/ AnalyzeFoodLogs
NextActivity == AddExerciseEntry \/ AnalyzeActivityLogs

(* predict_progress is called by a caller that holds no earlier projection *)
StartPrediction ==
    /\ pc = "idle"
    /\ (PredictUntrained \/ PredictTrained)

(* The caller is done with the projection it was returned (or with the     *)
(* exception): the locals of the call are gone, the predictor's state stays*)
DropProjection ==
    /\ pc \in {"returned", "raised"}
    /\ pc' = "idle"
    /\ user_data' = [weight |-> 7000, height |-> 170, gender |-> "Male"]
    /\ weeks_ahead' = 0
    /\ week' = 0
    /\ current_weight' = 7000
    /\ current_energy' = 500
    /\ predictions' = <<>>
    /\ stepLog' = <<>>
    /\ user_goals' = <<>>
    /\ goalAnalysis' = NoResult
    /\ UNCHANGED <<is_trained, trainCall, nutritionVars, activityVars, engineVars, dbVars>>

NextPredict ==
    \/ TrainModels
    \/ StartPrediction
    \/ DropProjection
    \/ WeekFeaturesRaise
    \/ WeekPredicted
    \/ WeekFailed

(* One press of the predictions button: the models are trained or not, the *)
(* progress is predicted and the returned predictions are analysed         *)
FirstPrediction ==
    /\ pc = "idle"
    /\ (TrainModels \/ PredictUntrained \/ PredictTrained)
NextGoals ==
    \/ FirstPrediction
    \/ WeekFeaturesRaise
    \/ WeekPredicted
    \/ WeekFailed
    \/ AnalyzeGoalAchievement

(* One analyzer at work, the other not yet used: the two share no state *)
FoodSession ==
    /\ exerciseLog = <<>> /\ activityResult = NoResult
    /\ NextNutrition
ExerciseSession ==
    /\ foodLog = <<>> /\ nutritionResult = NoResult
    /\ NextActivity
NextGapAnalyzers == FoodSession \/ ExerciseSession

(* Both analyzers at work on logs of at most one row, the caller changing   *)
(* the results it holds and turning to empty frames again                  *)
FirstFoodEntry == foodLog = <<>> /\ AddFoodEntry
FirstExerciseEntry == exerciseLog = <<>> /\ AddExerciseEntry
NextEmptyLogs ==
    \/ AnalyzeFoodLogs
    \/ AnalyzeActivityLogs
    \/ ModifyNutritionResult
    \/ ModifyActivityResult
    \/ FirstFoodEntry
    \/ FirstExerciseEntry
    \/ DiscardFoodLog
    \/ DiscardExerciseLog

Next ==
    \/ NextNutrition \/ NextActivity \/ NextPredict
    \/ ModifyNutritionResult \/ ModifyActivityResult
    \/ DiscardFoodLog \/ DiscardExerciseLog
    \/ AnalyzeGoalAchievement
    \/ DropProjection
    \/ CalculateCaloricNeeds
    \/ NextRecommend
    \/ EstimateExerciseFromPlan_Call
    \/ SuggestMeal_Call
    \/ NextDatabase

SpecNutrition == Init /\ [][NextNutrition]_vars
SpecActivity == Init /\ [][NextActivity]_vars
SpecPredict == Init /\ [][NextPredict]_vars
SpecGoals == Init /\ [][NextGoals]_vars
SpecGapAnalyzers == Init /\ [][NextGapAnalyzers]_vars
SpecEmptyLogs == Init /\ [][NextEmptyLogs]_vars
SpecCaloricNeeds == Init /\ [][NextCaloricNeeds]_vars
SpecRecommend == Init /\ [][NextRecommend]_vars
SpecSuggestMeal == Init /\ [][NextSuggestMeal]_vars
SpecDatabase == Init /\ [][NextDatabase]_vars
SpecPlanEstimate == Init /\ [][NextPlanEstimate]_vars
Spec == Init /\ [][Next]_vars

----------------------------------------------------------------------------
(* Properties of the nutrition gap analyzer (SpecNutrition)                *)

(* The targets as the specification lists them *)
NutrientTarget(n) ==
    CASE n = "calories" -> 2000
      [] n = "protein" -> 50
      [] n = "carbs" -> 225
      [] n = "fat" -> 65
      [] n = "fiber" -> 25

(* Sum of a column over all rows of the analysed log, and the number of    *)
(* distinct dates in it: the average daily intake is their quotient.       *)
LoggedTotal(n) == SumSkipNa(Column(foodLog, n))
LoggedDays == Cardinality({foodLog[i].date : i \in 1..Len(foodLog)})

(* total / days < 0.8 * T, in integers: total is the fraction t[1] / t[2] *)
AverageBelow80(n) ==
    5 * LoggedTotal(n)[1] < 4 * NutrientTarget(n) * LoggedDays * LoggedTotal(n)[2]

Analysed == nutritionResult.kind = "analysis"

(* C1: for a non-empty food log and every nutrient with target T, a gap    *)
(* entry is emitted iff the average daily intake is strictly below 0.8 T;  *)
(* the entry has current = average, recommended = T, deficit = T - average.*)
C1_GapIffBelow80Percent ==
    Analysed =>
        \A n \in Nutrients :
            LET gaps == nutritionResult.nutritional_gaps
                avg == RatDivInt(LoggedTotal(n), LoggedDays)
            IN  /\ (n \in DOMAIN gaps) <=> AverageBelow80(n)
                /\ n \in DOMAIN gaps =>
                      /\ gaps[n].current = avg
                      /\ gaps[n].recommended = NutrientTarget(n)
                      /\ RatAdd(gaps[n].deficit, avg) = R(NutrientTarget(n))

(* C1 witness: an analysed log of several rows on one date with a gap for  *)
(* one nutrient and an average exactly at 0.8 T, without a gap, for another*)
C1_Witness ==
    /\ Analysed
    /\ Len(foodLog) > LoggedDays
    /\ \E n \in Nutrients : n \in DOMAIN nutritionResult.nutritional_gaps
    /\ \E n \in Nutrients :
          /\ n \notin DOMAIN nutritionResult.nutritional_gaps
          /\ RatDivInt(LoggedTotal(n), LoggedDays) = Rat(4 * NutrientTarget(n), 5)

(* The log of the example: every row on one date, 1200 kcal, 40 g protein, *)
(* 10 g fiber in total.                                                    *)
ExampleFoodLog ==
    /\ Analysed
    /\ LoggedDays = 1
    /\ LoggedTotal("calories") = R(1200)
    /\ LoggedTotal("protein") = R(40)
    /\ LoggedTotal("fiber") = R(10)

HasGap(n, deficit) ==
    /\ n \in DOMAIN nutritionResult.nutritional_gaps
    /\ nutritionResult.nutritional_gaps[n].deficit = R(deficit)

(* C2 as stated: the example log is reported with a calories gap of        *)
(* deficit 800, a protein gap of deficit 10 and a fiber gap of deficit 15. *)
C2_ExampleAsStated ==
    ExampleFoodLog =>
        /\ HasGap("calories", 800)
        /\ HasGap("protein", 10)
        /\ HasGap("fiber", 15)

(* C2 amended: the example log is reported with a calories gap of deficit  *)
(* 800 and a fiber gap of deficit 15, and with no protein gap: 40 g is not *)
(* strictly below 0.8 x 50 g.                                              *)
C2_ExampleAmended ==
    ExampleFoodLog =>
        /\ HasGap("calories", 800)
        /\ HasGap("fiber", 15)
        /\ "protein" \notin DOMAIN nutritionResult.nutritional_gaps

(* C2 witness: the example log has been analysed *)
C2_Witness == ExampleFoodLog /\ Len(foodLog) >= 2

----------------------------------------------------------------------------
(* Properties of the activity gap analyzer (SpecActivity)                  *)

ActivityAnalysed == activityResult.kind = "analysis"

(* a step that is a call of analyze_activity_logs on a non-empty log *)
ActivityCall ==
    /\ activityResult = NoResult
    /\ activityResult' # NoResult
    /\ exerciseLog # <<>>

(* row i carries a calories_burned value *)
Populated(i) == exHasColumn /\ ~IsNaN(exerciseLog[i].calories_burned)

(* MET(type) x weight x duration / 60, MET in tenths: 5.0 for a type that  *)
(* the reference table does not list.                                      *)
FallbackCalories(row, w) ==
    LET met10 == IF \E r \in exercise_data : r.exercise_type = row.exercise_type
                 THEN (CHOOSE r \in exercise_data :
                          r.exercise_type = row.exercise_type).met10
                 ELSE 50
    IN  Rat(met10 * w * row.duration, 600)

(* C3: after analyze_activity_logs(log, weight) every entry whose          *)
(* calories_burned was not populated carries MET x weight x duration / 60, *)
(* also when other entries of the log were populated, and every populated  *)
(* entry keeps its value.                                                  *)
C3_PerEntryFallback ==
    [][ActivityCall =>
          \A i \in 1..Len(exerciseLog) :
              exerciseLog'[i].calories_burned =
                  IF Populated(i) THEN exerciseLog[i].calories_burned
                  ELSE FallbackCalories(exerciseLog[i], user_weight')]_vars

(* Counts over the analysed log *)
TotalDuration ==
    LET RECURSIVE Sum(_)
        Sum(i) == IF i = 0 THEN 0 ELSE exerciseLog[i].duration + Sum(i - 1)
    IN  Sum(Len(exerciseLog))
DistinctTypes == Cardinality({exerciseLog[i].exercise_type : i \in 1..Len(exerciseLog)})
EntriesOfCategory(c) ==
    Cardinality({i \in 1..Len(exerciseLog) :
                    \E r \in exercise_data :
                        /\ r.exercise_type = exerciseLog[i].exercise_type
                        /\ r.category = c})

(* gap g is emitted iff cond, and then with this deficit *)
EmittedIff(g, cond, deficit) ==
    LET gaps == activityResult.fitness_gaps
    IN  /\ (g \in DOMAIN gaps) <=> cond
        /\ g \in DOMAIN gaps => gaps[g].deficit = deficit

(* C9: for a non-empty exercise log the three gaps are evaluated           *)
(* independently: cardio_duration iff total duration < 150 (deficit 150 -  *)
(* total), exercise_variety iff distinct types < 3 (deficit 3 - count),    *)
(* strength_training iff Strength entries < 2 (deficit 2 - count); a log   *)
(* of total 300, 4 distinct types and no Strength entry yields             *)
(* strength_training with deficit 2 and neither of the other two.          *)
C9_ThreeGapsIndependent ==
    ActivityAnalysed =>
        /\ EmittedIff("cardio_duration", TotalDuration < 150, 150 - TotalDuration)
        /\ EmittedIff("exercise_variety", DistinctTypes < 3, 3 - DistinctTypes)
        /\ EmittedIff("strength_training", EntriesOfCategory("Strength") < 2,
                      2 - EntriesOfCategory("Strength"))
        /\ (TotalDuration = 300 /\ DistinctTypes = 4 /\ EntriesOfCategory("Strength") = 0) =>
              /\ "strength_training" \in DOMAIN activityResult.fitness_gaps
              /\ activityResult.fitness_gaps["strength_training"].deficit = 2
              /\ "cardio_duration" \notin DOMAIN activityResult.fitness_gaps
              /\ "exercise_variety" \notin DOMAIN activityResult.fitness_gaps

(* C9 witness: the log of the example has been analysed *)
C9_Witness ==
    /\ ActivityAnalysed
    /\ TotalDuration = 300
    /\ DistinctTypes = 4
    /\ EntriesOfCategory("Strength") = 0
    /\ DOMAIN activityResult.fitness_gaps = {"strength_training"}

(* C10: the flexibility gap is emitted iff the number of Flexibility       *)
(* entries is below 1; its recommended value is 2 and its deficit is       *)
(* 2 - count, hence 2; one Flexibility entry yields no flexibility gap.    *)
C10_FlexibilityAsymmetry ==
    ActivityAnalysed =>
        /\ EmittedIff("flexibility", EntriesOfCategory("Flexibility") < 1,
                      2 - EntriesOfCategory("Flexibility"))
        /\ "flexibility" \in DOMAIN activityResult.fitness_gaps =>
              /\ activityResult.fitness_gaps["flexibility"].recommended = 2
              /\ activityResult.fitness_gaps["flexibility"].current = 0
              /\ activityResult.fitness_gaps["flexibility"].deficit = 2
        /\ EntriesOfCategory("Flexibility") = 1 =>
              "flexibility" \notin DOMAIN activityResult.fitness_gaps

(* C10 witness: an analysed log with exactly one Flexibility entry, and no *)
(* flexibility gap                                                         *)
C10_Witness ==
    /\ ActivityAnalysed
    /\ EntriesOfCategory("Flexibility") = 1
    /\ "flexibility" \notin DOMAIN activityResult.fitness_gaps

----------------------------------------------------------------------------
(* Properties of the progress projector (SpecPredict); values in hundredths*)

Within(lo, hi, x) == lo <= x /\ x <= hi

(* C4: every entry predict_progress produces has weight within [30, 200]   *)
(* and bmi within [15, 50], on the trained step, the linear fallback and   *)
(* the per-step failure default alike.                                     *)
C4_EntriesInRange ==
    \A k \in 1..Len(predictions) :
        /\ Within(3000, 20000, predictions[k].weight)
        /\ Within(1500, 5000, predictions[k].bmi)

CallEnded == pc \in {"returned", "raised"}

(* C5: predict_progress with weeks_ahead = N >= 1 always ends by returning *)
(* exactly the entries Week_1 .. Week_N, in increasing week order.         *)
C5_ReturnsWeeks1ToN ==
    CallEnded =>
        /\ pc = "returned"
        /\ Len(predictions) = weeks_ahead
        /\ \A k \in 1..Len(predictions) : predictions[k].week = k

(* C6: in the trained path a failure of week k's step, a failure while     *)
(* building the feature vector included, is not propagated: Week_k is the  *)
(* minimal default (weight = current weight + 0.1, weight_change 0.1,      *)
(* energy_level 6.0) and the loop goes on with week k + 1.                 *)
C6_FeatureFailureIsolated ==
    [][(pc = "loop" /\ user_data.gender = "None") =>
          /\ pc' # "raised"
          /\ Len(predictions') = Len(predictions) + 1
          /\ predictions'[Len(predictions')].weight = Round1(current_weight + 10)
          /\ predictions'[Len(predictions')].weight_change = 10
          /\ predictions'[Len(predictions')].energy_level = 600]_vars

(* a call that took the linear fallback has returned: no feature vector was *)
(* built                                                                   *)
FallbackReturned == pc = "returned" /\ stepLog = <<>>

(* x is y rounded to a multiple of 0.1: a multiple of 10 at most 5 away,   *)
(* both scaled by den                                                      *)
IsRounding(x, num, den) ==
    /\ x % 10 = 0
    /\ Abs(x * den - num) <= 5 * den

(* the parts of C7 that do not involve the bmi *)
FallbackWeights ==
    \A k \in 1..Len(predictions) :
        /\ predictions[k].week = k
        /\ IsRounding(predictions[k].weight, user_data.weight + 20 * k, 1)
        /\ predictions[k].energy_level = 600
        /\ predictions[k].weight_change = 20 * k

(* C7 as stated: untrained, Week_k has weight = start + 0.2 k rounded to   *)
(* one decimal, bmi = that weight / (height / 100)^2, energy_level 6.0 and *)
(* weight_change 0.2 k.                                                    *)
C7_FallbackAsStated ==
    FallbackReturned =>
        /\ Len(predictions) = weeks_ahead
        /\ FallbackWeights
        /\ \A k \in 1..Len(predictions) :
              predictions[k].bmi * user_data.height * user_data.height
                  = predictions[k].weight * 10000

(* C7 amended: as stated, with bmi = (start + 0.2 k) / (height / 100)^2    *)
(* rounded to one decimal, start + 0.2 k being the weight before it is     *)
(* rounded.                                                                *)
C7_FallbackAmended ==
    FallbackReturned =>
        /\ Len(predictions) = weeks_ahead
        /\ FallbackWeights
        /\ \A k \in 1..Len(predictions) :
              IsRounding(predictions[k].bmi,
                         (user_data.weight + 20 * k) * 10000,
                         user_data.height * user_data.height)

(* C7 witness: the fallback returned several weeks for a user whose weight *)
(* has two decimals, whose bmi is not a multiple of 0.1 before rounding    *)
C7_Witness ==
    /\ FallbackReturned
    /\ Len(predictions) >= 2
    /\ user_data.weight % 10 # 0
    /\ predictions[2].bmi * user_data.height * user_data.height
          # predictions[2].weight * 10000

Clamped(lo, hi, x) == IF x < lo THEN lo ELSE IF x > hi THEN hi ELSE x

(* C8: in the trained path a successful week's raw predictions are clamped *)
(* to weight [30, 200], bmi [15, 50], energy [1, 10] before being recorded *)
(* (to one decimal), and the clamped weight and energy of week k are the   *)
(* current_weight and current_energy week k + 1's feature vector is built  *)
(* from; week 1 uses the user's weight and energy 5.                       *)
C8_ClampedAndFedBack ==
    /\ Len(stepLog) <= Len(predictions)
    /\ \A k \in 1..Len(stepLog) :
          /\ k = 1 => stepLog[1].weight = user_data.weight /\ stepLog[1].energy = 500
          /\ stepLog[k].ok =>
                /\ Within(3000, 20000, predictions[k].weight)
                /\ Within(1500, 5000, predictions[k].bmi)
                /\ Within(100, 1000, predictions[k].energy_level)
                /\ IsRounding(predictions[k].weight,
                              Clamped(3000, 20000, stepLog[k].raw.weight), 1)
                /\ IsRounding(predictions[k].bmi,
                              Clamped(1500, 5000, stepLog[k].raw.bmi), 1)
                /\ IsRounding(predictions[k].energy_level,
                              Clamped(100, 1000, stepLog[k].raw.energy), 1)
                /\ LET nextWeight == IF k < Len(stepLog) THEN stepLog[k + 1].weight
                                     ELSE current_weight
                       nextEnergy == IF k < Len(stepLog) THEN stepLog[k + 1].energy
                                     ELSE current_energy
                   IN  /\ nextWeight = Clamped(3000, 20000, stepLog[k].raw.weight)
                       /\ nextEnergy = Clamped(100, 1000, stepLog[k].raw.energy)

(* C8 witness: two successful weeks, the first with raw predictions out of *)
(* range, the second built from the clamped values                         *)
C8_Witness ==
    /\ Len(stepLog) >= 2
    /\ stepLog[1].ok /\ stepLog[2].ok
    /\ stepLog[1].raw.weight > 20000
    /\ stepLog[2].weight = 20000

----------------------------------------------------------------------------
(* Further properties of the two gap analyzers                             *)

(* the days between the first and the last entry of the exercise log *)
DaysSpanned ==
    LET days == {exerciseLog[i].date : i \in 1..Len(exerciseLog)}
    IN  IF days = {} THEN 0
        ELSE (CHOOSE d \in days : \A e \in days : d >= e)
             - (CHOOSE d \in days : \A e \in days : d <= e)

(* C11: for an exercise log of n entries, n = 0 included, the reported     *)
(* exercises_per_week is (n / 30) x 7, whatever dates the entries span.    *)
C11_ExercisesPerWeek ==
    activityResult.kind \in {"analysis", "default"} =>
        LET rate == activityResult.activity_patterns.exercises_per_week
        IN  /\ rate[2] > 0
            /\ rate[1] * 30 = 7 * Len(exerciseLog) * rate[2]

(* C11 witness: an analysed log of three entries that span more than 30    *)
(* days                                                                    *)
C11_Witness ==
    /\ ActivityAnalysed
    /\ Len(exerciseLog) = 3
    /\ DaysSpanned > 30
    /\ activityResult.activity_patterns.exercises_per_week = <<7, 10>>

(* an empty food log has been analysed *)
EmptyFoodLogAnalysed == foodLog = <<>> /\ nutritionResult.kind = "default"

(* zero intakes, full deficits for calories, protein and fiber only, and   *)
(* count distinct recommendation strings, none carrying a number           *)
NutritionCanned(result, count) ==
    /\ \A n \in Nutrients : result.daily_intake[n] = R(0)
    /\ DOMAIN result.nutritional_gaps = {"calories", "protein", "fiber"}
    /\ result.nutritional_gaps["calories"].deficit = R(2000)
    /\ result.nutritional_gaps["protein"].deficit = R(50)
    /\ result.nutritional_gaps["fiber"].deficit = R(25)
    /\ Len(result.recommendations) = count
    /\ Cardinality({result.recommendations[i].text :
                       i \in 1..Len(result.recommendations)}) = count
    /\ \A i \in 1..Len(result.recommendations) :
          result.recommendations[i].amount = 0

(* C12 as stated: analyze_food_logs on an empty log returns the canned     *)
(* default: five intakes of 0, gaps for exactly calories (2000), protein   *)
(* (50) and fiber (25), and exactly four generic recommendation strings.   *)
C12_DefaultAsStated ==
    EmptyFoodLogAnalysed => NutritionCanned(nutritionResult, 4)

(* C12 amended: as stated, with exactly three generic recommendation       *)
(* strings.                                                                *)
C12_DefaultAmended ==
    EmptyFoodLogAnalysed => NutritionCanned(nutritionResult, 3)

(* C12 witness: the empty log has been analysed and three strings returned *)
C12_Witness ==
    /\ EmptyFoodLogAnalysed
    /\ Len(nutritionResult.recommendations) = 3

(* zero patterns, full deficits for cardio (150), strength (2) and          *)
(* flexibility (2), four generic strings and no calories burned            *)
ActivityCanned(result) ==
    /\ result.activity_patterns.exercises_per_week = R(0)
    /\ result.activity_patterns.avg_duration_minutes = R(0)
    /\ result.activity_patterns.total_weekly_duration = 0
    /\ DOMAIN result.fitness_gaps = {"cardio_duration", "strength_training", "flexibility"}
    /\ result.fitness_gaps["cardio_duration"].deficit = 150
    /\ result.fitness_gaps["strength_training"].deficit = 2
    /\ result.fitness_gaps["flexibility"].deficit = 2
    /\ Len(result.recommendations) = 4
    /\ Cardinality({result.recommendations[i].text :
                       i \in 1..Len(result.recommendations)}) = 4
    /\ result.total_calories_burned = R(0)

(* C13: every call of analyze_food_logs / analyze_activity_logs with an    *)
(* empty log, after any calls of either analyzer and any change the caller *)
(* made to results it was returned, returns the canned default and leaves  *)
(* the logs and the other analyzer alone.                                  *)
C13_EmptyLogCallsIdempotent ==
    [][/\ (foodLog = <<>> /\ AnalyzeFoodLogs) =>
              /\ NutritionCanned(nutritionResult', 3)
              /\ nutritionResult'.kind = "default"
              /\ foodLog' = <<>>
              /\ UNCHANGED activityVars
       /\ (exerciseLog = <<>> /\ AnalyzeActivityLogs) =>
              /\ ActivityCanned(activityResult')
              /\ activityResult'.kind = "default"
              /\ exerciseLog' = <<>>
              /\ UNCHANGED nutritionVars]_vars

(* C13 witness: both analyzers were called with empty logs, the caller     *)
(* changed the default the activity analyzer returned, and the nutrition   *)
(* analyzer's default is as documented                                     *)
C13_Witness ==
    /\ foodLog = <<>> /\ exerciseLog = <<>>
    /\ nutritionResult.kind = "default"
    /\ NutritionCanned(nutritionResult, 3)
    /\ activityResult.kind = "default, modified"

(* C14: the analyzers are read-only on their inputs: after either call the *)
(* caller's log has the same columns and the same values in every entry.   *)
C14_AnalyzersReadOnly ==
    [][/\ AnalyzeFoodLogs => foodLog' = foodLog
       /\ AnalyzeActivityLogs =>
              /\ exerciseLog' = exerciseLog
              /\ exHasColumn' = exHasColumn]_vars

(* C15: in every result of either gap analyzer, default included, every    *)
(* gap entry has deficit = recommended - current and deficit >= 0.         *)
C15_DeficitsNonNegative ==
    /\ nutritionResult.kind \in {"analysis", "default"} =>
          \A n \in DOMAIN nutritionResult.nutritional_gaps :
              LET gap == nutritionResult.nutritional_gaps[n]
              IN  /\ RatAdd(gap.deficit, gap.current) = R(gap.recommended)
                  /\ gap.deficit[1] >= 0 /\ gap.deficit[2] > 0
    /\ activityResult.kind \in {"analysis", "default"} =>
          \A g \in DOMAIN activityResult.fitness_gaps :
              LET gap == activityResult.fitness_gaps[g]
              IN  /\ gap.deficit = gap.recommended - gap.current
                  /\ gap.deficit >= 0

(* C15 witness: an analysed exercise log with a gap of deficit 1 and a     *)
(* cardio gap                                                              *)
C15_Witness ==
    /\ ActivityAnalysed
    /\ \E g \in DOMAIN activityResult.fitness_gaps :
          activityResult.fitness_gaps[g].deficit = 1
    /\ "cardio_duration" \in DOMAIN activityResult.fitness_gaps
    /\ activityResult.fitness_gaps["cardio_duration"].current > 0

----------------------------------------------------------------------------
(* Properties of the recommendation engine                                 *)

CaloricCall ==
    engineArgs.kind = "call" /\ engineArgs.call = "calculate_caloric_needs"

(* the string lower-cases to 'male' *)
SpellsMale(str) ==
    /\ Len(str) = 4
    /\ str[1] \in {"m", "M"} /\ str[2] \in {"a", "A"}
    /\ str[3] \in {"l", "L"} /\ str[4] \in {"e", "E"}

(* the two BMR formulas in thousandths, and the multiplier table in        *)
(* fortieths: 1.2 = 48/40, 1.55 = 62/40, 1.725 = 69/40                     *)
MaleBmr(u) == 88362 + 13397 * u.weight + 4799 * u.height - 5677 * u.age
OtherBmr(u) == 447593 + 9247 * u.weight + 3098 * u.height - 4330 * u.age
MultiplierOf(level) ==
    IF level = "Low" THEN 48 ELSE IF level = "High" THEN 69 ELSE 62

(* x is num / den rounded to an integer *)
IsNearestInteger(x, num, den) == 2 * Abs(x * den - num) <= den

(* C16: calculate_caloric_needs uses the male BMR formula exactly when the *)
(* gender string lower-cases to 'male' and the other formula otherwise,    *)
(* multiplies the BMR by 1.2 / 1.55 / 1.725 for Low / Moderate / High and  *)
(* by 1.55 for any other level, and returns (raises no error) for every    *)
(* age, weight and height, non-positive ones included.                     *)
C16_CaloricNeeds ==
    CaloricCall =>
        LET u == engineArgs.user_data
            bmr == IF SpellsMale(u.gender) THEN MaleBmr(u) ELSE OtherBmr(u)
        IN  /\ engineResult.kind = "returned"
            /\ IsNearestInteger(engineResult.value,
                                bmr * MultiplierOf(u.activity_level), 40000)

(* C16 witness: a call for gender 'MALE', an activity level that is not in *)
(* the table and a non-positive weight has returned                        *)
C16_Witness ==
    /\ CaloricCall
    /\ engineArgs.user_data.gender = <<"M", "A", "L", "E">>
    /\ engineArgs.user_data.activity_level = "low"
    /\ engineArgs.user_data.weight <= 0
    /\ engineResult.kind = "returned"

NutritionRecommendCall ==
    engineArgs.kind = "call" /\ engineArgs.call = "generate_nutrition_recommendations"
ExerciseRecommendCall ==
    engineArgs.kind = "call" /\ engineArgs.call = "generate_exercise_recommendations"

(* the name lower-cases to the table key *)
LowerCasesTo(name, key) ==
    /\ Len(name) = Len(key)
    /\ \A i \in 1..Len(key) :
          \/ name[i] = key[i]
          \/ \E j \in 1..Len(LowerCase) : LowerCase[j] = key[i] /\ UpperCase[j] = name[i]

NutritionGoalKeys ==
    {weight_loss, muscle_gain, heart_health, diabetes_management, energy_boost}
ExerciseGoalKeys ==
    {weight_loss, muscle_gain, heart_health, flexibility, stress_relief}
DietaryKeys == {vegetarian, vegan, diabetic, hypertension, gluten_free}

(* the strings each source contributes to a call *)
FromAnalysis == Range(engineArgs.base)
FromCulturalTable == Range(CulturalRecommendation(engineArgs.cultural_background))
FromDietaryTable ==
    { [text |-> DietaryRecommendation(key)[1].text, arg |-> entered] :
        <<entered, key>> \in
            { pair \in Range(engineArgs.dietary_preferences) \X DietaryKeys :
                LowerCasesTo(pair[1], pair[2]) } }
FromNutritionGoalTable ==
    UNION { Range(GetNutritionRecommendationsForGoal(key)) :
              key \in { k \in NutritionGoalKeys :
                          \E goal \in Range(engineArgs.health_goals) :
                              LowerCasesTo(goal, k) } }
FromExerciseGoalTable ==
    UNION { Range(GetExerciseRecommendationsForGoal(key)) :
              key \in { k \in ExerciseGoalKeys :
                          \E goal \in Range(engineArgs.health_goals) :
                              LowerCasesTo(goal, k) } }
FromCluster ==
    IF engineArgs.user_cluster = -1 THEN {}
    ELSE { engineArgs.cluster_recommendations[i] :
             i \in {j \in 1..2 : j <= Len(engineArgs.cluster_recommendations)} }
FromActivityLevel == Range(ActivityLevelRecommendation(engineArgs.activity_level))
FromAge == Range(AgeRecommendation(engineArgs.age))

(* the returned list holds exactly the strings of the set, each once *)
ReturnedExactly(strings) ==
    /\ engineResult.kind = "returned"
    /\ DOMAIN engineResult.value = strings
    /\ \A r \in DOMAIN engineResult.value : engineResult.value[r] = 1

(* C17 as stated: the lists returned by generate_nutrition_recommendations *)
(* and generate_exercise_recommendations hold no string twice, hold every  *)
(* string of the analysis recommendations, of the cultural and dietary     *)
(* tables and of the per-goal tables, and hold nothing else; a goal        *)
(* contributes when its lower-cased name is a table key.                   *)
C17_RecommendationsAsStated ==
    /\ NutritionRecommendCall =>
          ReturnedExactly(FromAnalysis \cup FromCulturalTable \cup FromDietaryTable
                          \cup FromNutritionGoalTable)
    /\ ExerciseRecommendCall =>
          ReturnedExactly(FromAnalysis \cup FromExerciseGoalTable)

(* C17 amended: as stated, and the nutrition list also holds the first two *)
(* recommendations of the user's cluster when the user has one, and the    *)
(* exercise list also holds the string for a Low or High activity level    *)
(* and the string for an age above 50 or below 25.                         *)
C17_RecommendationsAmended ==
    /\ NutritionRecommendCall =>
          ReturnedExactly(FromAnalysis \cup FromCulturalTable \cup FromDietaryTable
                          \cup FromNutritionGoalTable \cup FromCluster)
    /\ ExerciseRecommendCall =>
          ReturnedExactly(FromAnalysis \cup FromExerciseGoalTable
                          \cup FromActivityLevel \cup FromAge)

(* C17 witness: a nutrition call whose analysis list repeats a string and  *)
(* shares one with the weight_loss table, with the goals 'Weight_Loss' and *)
(* 'flexibility' (no nutrition table), the same diet entered in two        *)
(* spellings and a cluster, has returned more than one string              *)
C17_Witness ==
    /\ NutritionRecommendCall
    /\ Len(engineArgs.base) = 3
    /\ engineArgs.health_goals = <<Weight_Loss, flexibility>>
    /\ engineArgs.dietary_preferences = <<Vegan, vegan>>
    /\ engineArgs.user_cluster # -1
    /\ Len(engineArgs.cluster_recommendations) = 3
    /\ engineResult.kind = "returned"
    /\ Cardinality(DOMAIN engineResult.value) = 9

----------------------------------------------------------------------------
(* Properties of analyze_goal_achievement (SpecGoals)                      *)

GoalsAnalysed == goalAnalysis.kind = "returned"

(* the entry of the last week of the predictions that were passed *)
FinalEntry == predictions[Len(predictions)]

Recognised(goal) ==
    \/ LowerCasesTo(goal, weight_loss)
    \/ LowerCasesTo(goal, muscle_gain)
    \/ LowerCasesTo(goal, fitness_improvement)

(* C18: analyze_goal_achievement classifies on the entry of the final week *)
(* only: for weight_loss a weight_change below -1 is 'On track', from -1   *)
(* to below 0 'Slow progress', 0 or more 'Not on track'; for               *)
(* fitness_improvement an energy_level above 7 is 'Good progress', above 5 *)
(* up to 7 'Moderate progress', 5 or less 'Consider adjusting plan'; each  *)
(* recognised goal gets exactly one text and other goals get no entry.     *)
C18_GoalTiers ==
    GoalsAnalysed =>
        LET analysis == goalAnalysis.value
            change == FinalEntry.weight_change
            energy == FinalEntry.energy_level
        IN  /\ DOMAIN analysis = {g \in Range(user_goals) : Recognised(g)}
            /\ \A goal \in DOMAIN analysis :
                  /\ LowerCasesTo(goal, weight_loss) =>
                        /\ change < -100 =>
                              analysis[goal] = "On track - predicted weight loss"
                        /\ (-100 <= change /\ change < 0) =>
                              analysis[goal] =
                                  "Slow progress - minor weight loss predicted"
                        /\ change >= 0 =>
                              analysis[goal] =
                                  "Not on track - no weight loss predicted"
                  /\ LowerCasesTo(goal, fitness_improvement) =>
                        /\ energy > 700 =>
                              analysis[goal] =
                                  "Good progress - high energy levels predicted"
                        /\ (500 < energy /\ energy <= 700) =>
                              analysis[goal] =
                                  "Moderate progress - stable energy levels"
                        /\ energy <= 500 =>
                              analysis[goal] =
                                  "Consider adjusting plan - low energy predicted"

(* C18 witness: predictions whose first week gains weight and whose final  *)
(* week has a weight_change of exactly -1 and an energy_level of exactly 7 *)
(* were analysed for 'Weight_Loss' and 'fitness_improvement'               *)
C18_Witness ==
    /\ GoalsAnalysed
    /\ Len(predictions) >= 2
    /\ predictions[1].weight_change > 0
    /\ FinalEntry.weight_change = -100
    /\ FinalEntry.energy_level = 700
    /\ user_goals = <<Weight_Loss, fitness_improvement>>
    /\ goalAnalysis.value[Weight_Loss] = "Slow progress - minor weight loss predicted"
    /\ goalAnalysis.value[fitness_improvement] =
          "Moderate progress - stable energy levels"

----------------------------------------------------------------------------
(* Properties of calculate_daily_intake and handle_missing_values          *)
(* (SpecNutrition)                                                         *)

FoodLogAnalysed == nutritionResult.kind = "analysis"

(* the dates that have at least one entry in the analysed log *)
DatesPresent == {d \in FoodDates : \E i \in 1..Len(foodLog) : foodLog[i].date = d}

(* the log with the entries at i and j exchanged *)
Exchanged(df, i, j) ==
    [k \in 1..Len(df) |-> IF k = i THEN df[j] ELSE IF k = j THEN df[i] ELSE df[k]]

(* C19: for a non-empty food log the average daily intake of each macro is *)
(* the sum of the macro over all entries divided by the number of distinct *)
(* dates present in the log (dates without entries are not counted), and   *)
(* it is the same for the entries in any other order (every order is       *)
(* reached by exchanging neighbours, and every log is checked).            *)
C19_AverageOverDatesPresent ==
    FoodLogAnalysed =>
        /\ \A n \in Nutrients :
              nutritionResult.daily_intake[n] =
                  RatDivInt(SumSkipNa(Column(foodLog, n)), Cardinality(DatesPresent))
        /\ \A i \in 1..(Len(foodLog) - 1) :
              CalculateDailyIntake(Exchanged(foodLog, i, i + 1))
                  = nutritionResult.daily_intake

(* C19 witness: a log of four entries, not all alike, on days 1 and 3 and  *)
(* none on day 2, the two days in mixed order, was analysed: 2600 kcal     *)
(* over two days is 1300 a day                                             *)
C19_Witness ==
    /\ FoodLogAnalysed
    /\ Len(foodLog) = 4
    /\ DatesPresent = {1, 3}
    /\ foodLog[1].date = 3 /\ foodLog[2].date = 1 /\ foodLog[3].date = 3
    /\ foodLog[1].food_item = "Eggs" /\ foodLog[2].food_item = "Rice"
    /\ SumSkipNa(Column(foodLog, "calories")) = R(2600)
    /\ nutritionResult.daily_intake["calories"] = R(1300)

(* the values of a column in the entries with the food_item of entry i *)
SameItemValues(df, i, col) ==
    Column(SelectSeq(df, LAMBDA r : r.food_item = df[i].food_item), col)

HasValue(cells) == \E k \in 1..Len(cells) : ~IsNaN(cells[k])

(* a cell after the first replacement, by the mean of its food_item *)
AfterItemMean(df, i, col) ==
    IF ~IsNaN(df[i][col]) THEN df[i][col]
    ELSE IF HasValue(SameItemValues(df, i, col))
    THEN MeanSkipNa(SameItemValues(df, i, col))
    ELSE NaN

(* as stated: the second replacement is by the mean of the values that are *)
(* not missing in the column of the log                                    *)
ImputedAsStated(df, i, col) ==
    IF ~IsNaN(AfterItemMean(df, i, col)) THEN AfterItemMean(df, i, col)
    ELSE IF HasValue(Column(df, col)) THEN MeanSkipNa(Column(df, col))
    ELSE NaN

(* amended: the second replacement is by the mean of the column as it is   *)
(* after the first replacement, the replaced values included               *)
ImputedAmended(df, i, col) ==
    IF ~IsNaN(AfterItemMean(df, i, col)) THEN AfterItemMean(df, i, col)
    ELSE IF HasValue(Column(df, col))
    THEN MeanSkipNa([k \in 1..Len(df) |-> AfterItemMean(df, k, col)])
    ELSE NaN

(* a column without any value gives an intake of 0 and a gap entry with    *)
(* the whole target as deficit                                             *)
AllMissingIsZero ==
    \A col \in Nutrients :
        ~HasValue(Column(foodLog, col)) =>
            /\ nutritionResult'.daily_intake[col] = R(0)
            /\ col \in DOMAIN nutritionResult'.nutritional_gaps
            /\ nutritionResult'.nutritional_gaps[col].deficit
                   = R(recommended_values[col])

(* the step of analyze_food_logs on a log with entries: only that call    *)
(* takes a log without a result to a returned analysis                     *)
AnalyzeNonEmptyFoodLog ==
    /\ foodLog # <<>>
    /\ nutritionResult.kind = "none"
    /\ nutritionResult'.kind = "analysis"

(* C20 as stated: in analyze_food_logs a missing macro value is replaced   *)
(* by the mean of the non-missing values of the entries with the same      *)
(* food_item; if the item has none, by the mean of the non-missing values  *)
(* of the whole column; if the whole column is missing, the nutrient's     *)
(* average daily intake is 0 and a full-deficit gap is reported for it.    *)
C20_ImputationAsStated ==
    [][AnalyzeNonEmptyFoodLog =>
          /\ \A i \in 1..Len(foodLog), col \in Nutrients :
                foodLog'[i][col] = ImputedAsStated(foodLog, i, col)
          /\ AllMissingIsZero]_vars

(* C20 amended: as stated, but when the item has no value the replacement  *)
(* is the mean of the column after the per-item replacement, in which the  *)
(* values imputed for other items count like recorded ones.                *)
C20_ImputationAmended ==
    [][AnalyzeNonEmptyFoodLog =>
          /\ \A i \in 1..Len(foodLog), col \in Nutrients :
                foodLog'[i][col] = ImputedAmended(foodLog, i, col)
          /\ AllMissingIsZero]_vars

(* C20 witness: an analysed log of two Rice entries, Eggs and Oats in      *)
(* which the Oats entry, whose item had no protein value, holds 70/3: the  *)
(* mean of 20, the 20 imputed for the other Rice entry, and 30 (the mean   *)
(* of the recorded 20 and 30 would be 25)                                  *)
C20_Witness ==
    /\ FoodLogAnalysed
    /\ Len(foodLog) = 4
    /\ {foodLog[i].food_item : i \in 1..2} = {"Rice"}
    /\ foodLog[3].food_item = "Eggs" /\ foodLog[4].food_item = "Oats"
    /\ foodLog[1].protein = R(20) /\ foodLog[2].protein = R(20)
    /\ foodLog[4].protein = Rat(70, 3)
    /\ foodLog[4].fiber = Rat(25, 3)

----------------------------------------------------------------------------
(* Properties of estimate_exercise_from_plan (SpecPlanEstimate)            *)

PlanEstimateCall ==
    engineArgs.kind = "call" /\ engineArgs.call = "estimate_exercise_from_plan"

(* the days of the plan that have an 'exercises' list *)
ExerciseDays(plan) ==
    {d \in 1..Len(plan) : plan[d].is_dict /\ plan[d].has_exercises}

(* the duration given for exercise e of day d, 30 when none is given *)
DurationGiven(plan, d, e) ==
    IF plan[d].exercises[e] = <<>> THEN 30 ELSE plan[d].exercises[e][1]

RECURSIVE SumOver(_, _)
SumOver(S, f) ==
    IF S = {} THEN 0
    ELSE LET x == CHOOSE y \in S : TRUE IN f[x] + SumOver(S \ {x}, f)

(* the durations of all exercises on the exercise days of the plan, summed *)
PlanDuration(plan) ==
    LET cells == {<<d, e>> \in (1..Len(plan)) \X (1..2) :
                     d \in ExerciseDays(plan) /\ e <= Len(plan[d].exercises)}
    IN  SumOver(cells, [c \in cells |-> DurationGiven(plan, c[1], c[2])])

(* C21: estimate_exercise_from_plan returns total_duration = the sum of    *)
(* the durations of all exercises on the plan days that have an            *)
(* 'exercises' list (30 for an exercise without a duration), frequency =   *)
(* the number of such days and avg_calories_burned = 5 x total_duration /  *)
(* frequency; for a plan without such a day it returns 0, 0, 0 and no      *)
(* division by zero happens.                                               *)
C21_PlanEstimate ==
    PlanEstimateCall =>
        LET plan == engineArgs.exercise_plan
            days == Cardinality(ExerciseDays(plan))
            est == engineResult.value
        IN  /\ engineResult.kind = "returned"
            /\ est.total_duration = PlanDuration(plan)
            /\ est.frequency = days
            /\ days > 0 =>
                  /\ ~IsNaN(est.avg_calories_burned)
                  /\ est.avg_calories_burned[1] * days
                        = 5 * PlanDuration(plan) * est.avg_calories_burned[2]
            /\ days = 0 =>
                  /\ est.total_duration = 0
                  /\ est.avg_calories_burned = R(0)

(* C21 witness: a plan of one day without 'exercises' and two exercise     *)
(* days, one of them with an exercise that has no duration, was estimated: *)
(* 30 + 58 + 45 = 133 minutes on 2 days, 665 / 2 calories                  *)
C21_Witness ==
    /\ PlanEstimateCall
    /\ Len(engineArgs.exercise_plan) = 3
    /\ ~engineArgs.exercise_plan[1].has_exercises
    /\ engineArgs.exercise_plan[2].exercises = << <<>>, <<58>> >>
    /\ engineArgs.exercise_plan[3].exercises = << <<45>> >>
    /\ engineResult.kind = "returned"
    /\ engineResult.value.total_duration = 133
    /\ engineResult.value.frequency = 2
    /\ engineResult.value.avg_calories_burned = Rat(665, 2)

----------------------------------------------------------------------------
(* The canned defaults against the threshold rules (SpecEmptyLogs)         *)

(* what the rules report for totals of zero: an exercise log without rows, *)
(* an intake of 0 for every nutrient                                       *)
FitnessGapsForZero == IdentifyFitnessGaps(<<>>)
NutritionGapsForZero == IdentifyNutritionalGaps([n \in Nutrients |-> R(0)])

BothDefaultsReturned ==
    nutritionResult.kind = "default" /\ activityResult.kind = "default"

(* C22 as stated: the canned default returned for an empty log reports     *)
(* exactly the gaps the analyzer's threshold rules report for zero totals: *)
(* for activity cardio_duration, exercise_variety, strength_training and   *)
(* flexibility; for nutrition every nutrient with a target.                *)
C22_DefaultGapsAsStated ==
    /\ activityResult.kind = "default" =>
          /\ DOMAIN activityResult.fitness_gaps = DOMAIN FitnessGapsForZero
          /\ DOMAIN activityResult.fitness_gaps =
                {"cardio_duration", "exercise_variety", "strength_training",
                 "flexibility"}
    /\ nutritionResult.kind = "default" =>
          /\ DOMAIN nutritionResult.nutritional_gaps = DOMAIN NutritionGapsForZero
          /\ DOMAIN nutritionResult.nutritional_gaps = Nutrients

(* C22 amended: the canned default reports some of the gaps the rules      *)
(* report for zero totals, each with the entry the rule gives: for         *)
(* activity all but exercise_variety, for nutrition all but carbs and fat. *)
C22_DefaultGapsAmended ==
    /\ DOMAIN FitnessGapsForZero =
          {"cardio_duration", "exercise_variety", "strength_training", "flexibility"}
    /\ DOMAIN NutritionGapsForZero = Nutrients
    /\ activityResult.kind = "default" =>
          /\ DOMAIN activityResult.fitness_gaps =
                DOMAIN FitnessGapsForZero \ {"exercise_variety"}
          /\ \A g \in DOMAIN activityResult.fitness_gaps :
                activityResult.fitness_gaps[g] = FitnessGapsForZero[g]
    /\ nutritionResult.kind = "default" =>
          /\ DOMAIN nutritionResult.nutritional_gaps =
                DOMAIN NutritionGapsForZero \ {"carbs", "fat"}
          /\ \A n \in DOMAIN nutritionResult.nutritional_gaps :
                nutritionResult.nutritional_gaps[n] = NutritionGapsForZero[n]

(* C22 witness: both analyzers have returned their default for an empty    *)
(* log, the activity one without an exercise_variety entry, the nutrition  *)
(* one without a carbs entry                                               *)
C22_Witness ==
    /\ BothDefaultsReturned
    /\ foodLog = <<>> /\ exerciseLog = <<>>
    /\ "exercise_variety" \notin DOMAIN activityResult.fitness_gaps
    /\ "carbs" \notin DOMAIN nutritionResult.nutritional_gaps

----------------------------------------------------------------------------
(* Further properties of the progress projector (SpecPredict, SpecGoals)   *)

(* the weight and the energy carried into the week after week k *)
CarriedWeightAfter(k) ==
    IF k < Len(stepLog) THEN stepLog[k + 1].weight ELSE current_weight
CarriedEnergyAfter(k) ==
    IF k < Len(stepLog) THEN stepLog[k + 1].energy ELSE current_energy

(* the successful weeks before week k *)
SucceededBefore(k) == {j \in 1..(k - 1) : stepLog[j].ok}

(* the last successful clamped weight before week k; the user's weight     *)
(* when no week before k succeeded                                         *)
LastGoodWeight(k) ==
    IF SucceededBefore(k) = {} THEN user_data.weight
    ELSE LET j == CHOOSE m \in SucceededBefore(k) :
                     \A n \in SucceededBefore(k) : n <= m
         IN  Clamped(3000, 20000, stepLog[j].raw.weight)

(* C23: in the trained path, after week k's step fails the weight and the  *)
(* energy carried into week k + 1 are those carried into week k (the +0.1  *)
(* of the default entry is not fed back); so every week of a run of        *)
(* consecutive failed weeks reports the same weight, the last successful   *)
(* clamped weight + 0.1, and a bmi computed with the fixed height 1.70 m   *)
(* whatever the user's height.                                             *)
C23_FailedWeekNotFedBack ==
    \A k \in 1..Len(stepLog) :
        ~stepLog[k].ok =>
            /\ CarriedWeightAfter(k) = stepLog[k].weight
            /\ CarriedEnergyAfter(k) = stepLog[k].energy
            /\ stepLog[k].weight = LastGoodWeight(k)
            /\ IsRounding(predictions[k].weight, LastGoodWeight(k) + 10, 1)
            /\ IsRounding(predictions[k].bmi, LastGoodWeight(k) * 100, 289)
            /\ (k > 1 /\ ~stepLog[k - 1].ok) =>
                  /\ predictions[k].weight = predictions[k - 1].weight
                  /\ predictions[k].bmi = predictions[k - 1].bmi

(* C23 witness: a user 1.50 m tall; week 1 succeeded with a weight clamped *)
(* to 200 kg, weeks 2 and 3 failed and both report 200.1 kg and the bmi    *)
(* 69.2 = 200 / 1.7^2, and the call returned still carrying 200 kg         *)
C23_Witness ==
    /\ pc = "returned"
    /\ user_data.height = 150
    /\ Len(stepLog) = 3
    /\ stepLog[1].ok /\ ~stepLog[2].ok /\ ~stepLog[3].ok
    /\ stepLog[1].raw.weight > 20000
    /\ predictions[2].weight = 20010 /\ predictions[3].weight = 20010
    /\ predictions[2].bmi = 6920 /\ predictions[3].bmi = 6920
    /\ current_weight = 20000

(* C24: in every projection returned by predict_progress the weight_change *)
(* of Week_k is the difference between Week_k's weight and the starting    *)
(* (Week_0) user weight, to the rounding of the two values, in the trained *)
(* path as in the untrained fallback.                                      *)
C24_ChangeSinceStart ==
    pc = "returned" =>
        \A k \in 1..Len(predictions) :
            Abs(predictions[k].weight_change
                - (predictions[k].weight - user_data.weight)) <= 10

(* the most recent train_models call, if any, was given at least 10 rows   *)
(* and fitted the three models without an error                            *)
LastTrainingSucceeded ==
    /\ trainCall.kind = "call"
    /\ trainCall.rows >= 10
    /\ ~trainCall.fit_raised

(* a predict_progress call starts (no call is in its loop) and enters the  *)
(* loop of the trained path, or returns the linear fallback at once        *)
TrainedPathTaken == pc # "loop" /\ pc' = "loop"
FallbackTaken ==
    /\ pc # "loop" /\ pc' = "returned"
    /\ trainCall' = trainCall /\ goalAnalysis' = NoResult
    /\ stepLog' = <<>> /\ Len(predictions') = weeks_ahead'

UntrainedProjectionAnalysed ==
    /\ GoalsAnalysed
    /\ ~is_trained
    /\ Len(predictions) >= 1

(* C26: with an untrained predictor, for every user and every N >= 1,      *)
(* analyze_goal_achievement applied to what predict_progress returned      *)
(* gives 'Not on track - no weight loss predicted' for the goal            *)
(* weight_loss and 'Moderate progress - stable energy levels' for the goal *)
(* fitness_improvement, and never another tier of either goal.             *)
C26_UntrainedTiers ==
    UntrainedProjectionAnalysed =>
        \A i \in DOMAIN user_goals :
            LET goal == user_goals[i]
            IN  /\ LowerCasesTo(goal, weight_loss) =>
                      /\ goal \in DOMAIN goalAnalysis.value
                      /\ goalAnalysis.value[goal] =
                            "Not on track - no weight loss predicted"
                /\ LowerCasesTo(goal, fitness_improvement) =>
                      /\ goal \in DOMAIN goalAnalysis.value
                      /\ goalAnalysis.value[goal] =
                            "Moderate progress - stable energy levels"

(* C26 witness: the three-week fallback of an untrained predictor was      *)
(* analysed for 'Weight_Loss' and 'fitness_improvement'                    *)
C26_Witness ==
    /\ UntrainedProjectionAnalysed
    /\ stepLog = <<>>
    /\ Len(predictions) = 3
    /\ FinalEntry.weight_change = 60
    /\ FinalEntry.energy_level = 600
    /\ user_goals = <<Weight_Loss, fitness_improvement>>
    /\ goalAnalysis.value[Weight_Loss] = "Not on track - no weight loss predicted"
    /\ goalAnalysis.value[fitness_improvement] =
          "Moderate progress - stable energy levels"

----------------------------------------------------------------------------
(* Further properties of analyze_food_logs (SpecNutrition)                 *)

CaloriesGapEmitted ==
    /\ nutritionResult.kind \in {"analysis", "default"}
    /\ "calories" \in DOMAIN nutritionResult.nutritional_gaps

RecommendationTexts ==
    {nutritionResult.recommendations[i].text :
        i \in DOMAIN nutritionResult.recommendations}

(* C27: whenever analyze_food_logs emits a calories gap its deficit is     *)
(* above 400, hence above 200: generate_nutrition_recommendations adds     *)
(* 'Consider increasing caloric intake with nutrient-dense foods.' for it, *)
(* and no analysis carries 'Maintain current caloric intake but focus on   *)
(* nutrient quality.'                                                      *)
C27_CaloriesGapAbove400 ==
    /\ CaloriesGapEmitted =>
          RatLt(R(400), nutritionResult.nutritional_gaps["calories"].deficit)
    /\ (FoodLogAnalysed /\ CaloriesGapEmitted) =>
          "Consider increasing caloric intake with nutrient-dense foods."
              \in RecommendationTexts
    /\ nutritionResult.kind \in {"analysis", "default"} =>
          "Maintain current caloric intake but focus on nutrient quality."
              \notin RecommendationTexts

(* C27 witness: a food log whose daily calories average at least 1500 and  *)
(* less than 1600 was analysed and got the calories recommendation         *)
C27_Witness ==
    /\ FoodLogAnalysed
    /\ CaloriesGapEmitted
    /\ RatLe(R(1500), nutritionResult.daily_intake["calories"])
    /\ "Consider increasing caloric intake with nutrient-dense foods."
          \in RecommendationTexts

----------------------------------------------------------------------------
(* Properties of suggest_meal (SpecSuggestMeal)                            *)

SuggestMealReturned ==
    /\ engineArgs.kind = "call"
    /\ engineArgs.call = "suggest_meal"
    /\ engineResult.kind = "returned"

(* the two characters are the same letter in either case, or the same      *)
(* character                                                               *)
SameIgnoringCase(a, b) ==
    \/ a = b
    \/ \E k \in 1..Len(LowerCase) :
          {a, b} = {LowerCase[k], UpperCase[k]}

(* the term occurs in the text at some position, case-insensitively *)
OccursIn(term, text) ==
    \E i \in 1..(Len(text) - Len(term) + 1) :
        \A j \in 1..Len(term) : SameIgnoringCase(text[i + j - 1], term[j])

(* the 'avoid' terms of the recognised preferences among those given *)
AvoidTermsOf(prefs) ==
    UNION { Range(AvoidFoods(key)) :
              key \in {k \in DietaryKeys :
                         \E i \in DOMAIN prefs : LowerCasesTo(prefs[i], k)} }

(* C28: for every meal type, cultural background and list of dietary       *)
(* preferences suggest_meal returns between 1 and 3 suggestions, none of   *)
(* which contains, case-insensitively as a substring, an 'avoid' term of a *)
(* recognised dietary preference of the user; also when the generic        *)
(* options are returned.                                                   *)
C28_SuggestionsAvoidNothing ==
    SuggestMealReturned =>
        /\ Len(engineResult.value) \in 1..3
        /\ \A i \in DOMAIN engineResult.value :
              \A term \in AvoidTermsOf(engineArgs.dietary_preferences) :
                  ~OccursIn(term, engineResult.value[i])

(* C28 witness: a vegetarian asked for a Western lunch with a protein gap  *)
(* and got the two suggestions left once the chicken salad was filtered    *)
(* out                                                                     *)
C28_Witness ==
    /\ SuggestMealReturned
    /\ engineArgs.meal_type = "lunch"
    /\ engineArgs.cultural_background = "Western"
    /\ engineArgs.dietary_preferences = <<keto, vegetarian>>
    /\ "protein" \in engineArgs.nutritional_gaps
    /\ Len(engineResult.value) = 2
    /\ OccursIn(<<"Q", "u", "i", "n", "o", "a">>, engineResult.value[1])
    /\ OccursIn(<<"p", "r", "o", "t", "e", "i", "n">>, engineResult.value[1])

----------------------------------------------------------------------------
(* Properties of create_user and get_user (SpecDatabase)                   *)

IsCreate(e) == e.call = "create_user"
IsGet(e) == e.call = "get_user"

(* the calls before call k that asked to create the username *)
CreatesBefore(k, username) ==
    {j \in 1..(k - 1) : IsCreate(dbLog[j]) /\ dbLog[j].username = username}

(* the first of them *)
FirstCreate(k, username) ==
    CHOOSE j \in CreatesBefore(k, username) :
        \A i \in CreatesBefore(k, username) : j <= i

(* the ids create_user returned before call k *)
IdsReturnedBefore(k) ==
    {dbLog[j].result.id :
        j \in {i \in 1..(k - 1) : IsCreate(dbLog[i]) /\ dbLog[i].result # None}}

(* the dict is the profile the call stored under the id it returned *)
IsProfileOf(dict, create) ==
    /\ dict.kind = "user"
    /\ create.result # None
    /\ dict.id = create.result.id
    /\ dict.username = create.username
    /\ dict.age = create.profile.age
    /\ dict.gender = create.profile.gender
    /\ dict.height = create.profile.height
    /\ dict.weight = create.profile.weight
    /\ dict.activity_level = create.profile.activity_level
    /\ dict.health_goals = create.profile.health_goals
    /\ dict.dietary_preferences = create.profile.dietary_preferences

CallsAsStated ==
    \A k \in DOMAIN dbLog :
        LET e == dbLog[k]
            known == CreatesBefore(k, e.username) # {}
        IN  /\ (IsCreate(e) /\ known) => e.result = None
            /\ (IsCreate(e) /\ ~known) =>
                  /\ e.result # None
                  /\ e.result.id \notin IdsReturnedBefore(k)
            /\ (IsGet(e) /\ known) =>
                  IsProfileOf(e.result, dbLog[FirstCreate(k, e.username)])

(* the step is a create_user call with a username an earlier call created *)
DuplicateCreated ==
    /\ Len(dbLog') = Len(dbLog) + 1
    /\ IsCreate(dbLog'[Len(dbLog')])
    /\ CreatesBefore(Len(dbLog'), dbLog'[Len(dbLog')].username) # {}

(* C29: for every sequence of create_user and get_user calls on one        *)
(* database, create_user with a username already present returns None and *)
(* leaves the stored users unchanged, so that get_user still returns the   *)
(* first user's profile; create_user with a new username returns an id     *)
(* distinct from every id returned before, and get_user of that username   *)
(* then returns the profile that was stored, health_goals and              *)
(* dietary_preferences being the same lists.                               *)
C29_UsersCreatedOnce ==
    [][/\ CallsAsStated'
       /\ DuplicateCreated => users' = users]_vars

(* C29 witness: 'alice' was created with a goal that holds a quote, a      *)
(* comma and a backslash, a second create_user for 'alice' returned None,  *)
(* and get_user then returned the first profile                            *)
C29_Witness ==
    /\ Len(dbLog) = 3
    /\ IsCreate(dbLog[1]) /\ dbLog[1].username = "alice"
    /\ dbLog[1].result = [kind |-> "id", id |-> 1]
    /\ dbLog[1].profile.health_goals = <<quoted_item, <<>>>>
    /\ IsCreate(dbLog[2]) /\ dbLog[2].username = "alice"
    /\ dbLog[2].profile.age = 45
    /\ dbLog[2].result = None
    /\ IsGet(dbLog[3]) /\ dbLog[3].username = "alice"
    /\ dbLog[3].result.kind = "user"
    /\ dbLog[3].result.age = 30
    /\ dbLog[3].result.health_goals = <<quoted_item, <<>>>>
    /\ Len(users) = 1

============================================================================
